---- MODULE Spec2Model ----
(***************************************************************************)
(* FINAL CUT keyboard input decoder (fkeyboard.cpp, src/unnamed/part_001). *)
(*                                                                         *)
(* The engine is single-threaded: fetchKeyCode, escapeKeyHandling,         *)
(* clearKeyBufferOnTimeout, processQueuedInput and isKeyPressed are called *)
(* one at a time by the outer event loop.  The two loops of the engine     *)
(* (parseKeyBuffer and processQueuedInput) are modelled one iteration per  *)
(* step under a program counter, so that the environment (bytes arriving   *)
(* on the terminal, the keypress timer running out) can move while a loop  *)
(* is running; no other engine operation can start before the running one *)
(* has returned.                                                           *)
(***************************************************************************)
EXTENDS Integers, Sequences, FiniteSets, TLC

VARIABLES
  stream,             \* bytes the terminal will still send
  input,              \* bytes waiting on stdin, not yet read
  fifo_buf,           \* CharRingBuffer<FIFO_BUF_SIZE> fifo_buf
  fkey_queue,         \* std::queue<FKey> fkey_queue
  fkey,               \* last decode result
  key,                \* key being delivered
  has_pending_input,  \* set by isKeyPressed, cleared by a successful read
  timed_out,          \* isKeypressTimeout(): now - time_keypressed > key_timeout
  quit,               \* FApplication::isQuit()
  utf8_input,         \* configuration
  mouse_support,      \* configuration
  key_cap,            \* capability table (<<>> models an absent table)
  pc,                 \* position of the engine: idle, read, parse, drain
  events,             \* history: notifications fired, [kind, key, quit]
  pushed,             \* history: codes pushed onto fkey_queue
  readlog,            \* history: bytes read from stdin
  non_blocking_input_support,  \* configuration (static, default true)
  non_blocking_stdin, \* the mode setNonBlockingInput left stdin in
  key_name            \* last getKeyName call: the code asked, the name returned

vars == << stream, input, fifo_buf, fkey_queue, fkey, key, has_pending_input,
           timed_out, quit, utf8_input, mouse_support, key_cap, pc,
           events, pushed, readlog, non_blocking_input_support,
           non_blocking_stdin, key_name >>

config == << utf8_input, mouse_support, key_cap, non_blocking_input_support >>

(***************************************************************************)
(* Bounds of the model.                                                    *)
(***************************************************************************)
MAX_QUEUE_SIZE == 3     \* capacity of the event queue, scaled down
FIFO_BUF_SIZE == 9      \* capacity of the ring buffer, scaled down

(***************************************************************************)
(* Key codes (enum class FKey : uInt32).  The enumerators are declared in  *)
(* final/fc.h, NOT_SET in final/input/fkeyboard.h.  A code is written as   *)
(* the 32-bit two's complement reading of its uInt32 value, so that        *)
(* static_cast<FKey>(-1) is -1; KeyGreater is the order of uInt32.         *)
(***************************************************************************)
None == 0
Backspace == 16777216
Ctrl_space == 16777248
Up == 16777221
Down == 16777222
F1 == 16777225
F2 == 16777226
X11mouse == 16777346
Extended_mouse == 16777347
Urxvt_mouse == 16777348
Meta_O == 33554735
Meta_left_square_bracket == 33554747
Meta_right_square_bracket == 33554749
Meta_a == 33554753
Incomplete == -2
NOT_SET == -1

ESC == 27

\* a > b on uInt32
KeyGreater(a, b) == IF (a < 0) = (b < 0) THEN a > b ELSE a < 0

MouseKeys == {X11mouse, Extended_mouse, Urxvt_mouse}

(***************************************************************************)
(* Static tables (fkey_map.cpp): known sequences, sorted by length by the  *)
(* constructor, and a capability table as terminal negotiation supplies.   *)
(***************************************************************************)
fkey_table ==
  << [num |-> Meta_O, string |-> <<27, 79>>],
     [num |-> Meta_left_square_bracket, string |-> <<27, 91>>],
     [num |-> Meta_right_square_bracket, string |-> <<27, 93>>],
     [num |-> Meta_a, string |-> <<27, 97>>],
     [num |-> Up, string |-> <<27, 91, 65>>],
     [num |-> F1, string |-> <<27, 91, 77, 35, 36, 37>>] >>

fkey_cap_table ==
  << [num |-> Backspace, string |-> <<>>],
     [num |-> Up, string |-> <<27, 79, 65>>] >>

\* a capability table whose entries coincide with a known sequence (ESC [ A,
\* Up in fkey_table) and with a legacy mouse report
fkey_cap_table_overlap ==
  << [num |-> Down, string |-> <<27, 91, 65>>],
     [num |-> F2, string |-> <<27, 91, 77, 32, 33, 34>>] >>

\* a capability table of a terminal whose description gives two keys the
\* sequences ESC O and ESC [
fkey_cap_table_meta ==
  << [num |-> F1, string |-> <<27, 79>>],
     [num |-> F2, string |-> <<27, 91>>] >>

\* Key names (fkey_map.cpp), each the bytes of its string.  The table has an
\* entry for None, two entries for Up and an entry for a printable character.
fkeyname ==
  << [num |-> Backspace, string |-> <<66, 97, 99, 107>>],     \* "Back"
     [num |-> None, string |-> <<78, 111, 110, 101>>],        \* "None"
     [num |-> Up, string |-> <<85, 112>>],                    \* "Up"
     [num |-> Up, string |-> <<67, 117, 114, 85, 112>>],      \* "CurUp"
     [num |-> 97, string |-> <<75, 97>>],                     \* "Ka"
     [num |-> Meta_O, string |-> <<77, 45, 79>>] >>           \* "M-O"

(***************************************************************************)
(* CharRingBuffer (final/util/char_ringbuffer.h), as a sequence.           *)
(***************************************************************************)
isFull(buf) == Len(buf) >= FIFO_BUF_SIZE

hasData(buf) == Len(buf) > 0

push(buf, c) == IF isFull(buf) THEN buf ELSE Append(buf, c)

pop(buf, n) == SubSeq(buf, n + 1, Len(buf))

\* operator[]: a position at or past the number of buffered bytes reads
\* whatever the ring storage holds there (stale[...]).
peek(buf, i, stale) ==
  IF i < Len(buf) THEN buf[i + 1] ELSE stale[((i - Len(buf)) % 3) + 1]

strncmp_front(buf, kstr, klen) ==
  /\ klen <= Len(buf)
  /\ SubSeq(buf, 1, klen) = kstr

\* std::find_if: the index of the first entry that matches, 0 if none;
\* matches is the set of the indices of the entries that satisfy the predicate
find_if(matches) ==
  IF matches = {} THEN 0
  ELSE CHOOSE i \in matches : \A j \in matches : i <= j

(***************************************************************************)
(* Bit operations on bytes, as the masks of the source use them.           *)
(***************************************************************************)
AndC0(ch) == (ch \div 64) * 64     \* ch & 0xc0
AndE0(ch) == (ch \div 32) * 32     \* ch & 0xe0
AndF0(ch) == (ch \div 16) * 16     \* ch & 0xf0
AndF8(ch) == (ch \div 8) * 8       \* ch & 0xf8
\* u << 6 on uInt32: the low 26 bits of u move up, bit 25 becomes the top bit
Shl6(u) ==
  LET low == u % 67108864
  IN  IF low >= 33554432 THEN (low - 67108864) * 64 ELSE low * 64

(***************************************************************************)
(* The decoder.  Each function takes the buffer and what the clock and the *)
(* ring storage answer during the call, and returns the key code and the   *)
(* buffer it leaves.                                                       *)
(***************************************************************************)
\* mutant: the legacy report is recognised only with more than 6 bytes
getMouseProtocolKey_seven(buf, stale) ==
  LET buf_len == Len(buf)
      at(i) == peek(buf, i, stale)
  IN  IF ~mouse_support THEN NOT_SET
      ELSE IF buf_len > 6 /\ at(1) = 91 /\ at(2) = 77 THEN X11mouse
      ELSE NOT_SET

\* mutant: an SGR report is recognised by a final 'M' only
getMouseProtocolKey_press(buf, stale) ==
  LET buf_len == Len(buf)
      at(i) == peek(buf, i, stale)
  IN  IF ~mouse_support THEN NOT_SET
      ELSE IF buf_len >= 6 /\ at(1) = 91 /\ at(2) = 77 THEN X11mouse
      ELSE IF /\ at(1) = 91 /\ at(2) = 60 /\ buf_len >= 9
              /\ at(buf_len - 1) = 77
             THEN Extended_mouse
      ELSE IF /\ at(1) = 91 /\ at(2) >= 49 /\ at(2) <= 57
              /\ at(3) >= 48 /\ at(3) <= 57 /\ buf_len >= 9
              /\ at(buf_len - 1) = 77
             THEN Urxvt_mouse
      ELSE NOT_SET

\* mutant: mouse_support is not consulted
getMouseProtocolKey_always(buf, stale) ==
  LET buf_len == Len(buf)
      at(i) == peek(buf, i, stale)
  IN  IF buf_len >= 6 /\ at(1) = 91 /\ at(2) = 77 THEN X11mouse
      ELSE IF /\ at(1) = 91 /\ at(2) = 60 /\ buf_len >= 9
              /\ (at(buf_len - 1) = 77 \/ at(buf_len - 1) = 109)
             THEN Extended_mouse
      ELSE NOT_SET

getMouseProtocolKey(buf, stale) ==
  LET buf_len == Len(buf)
      at(i) == peek(buf, i, stale)
  IN  IF ~mouse_support THEN NOT_SET
      ELSE IF buf_len >= 6 /\ at(1) = 91 /\ at(2) = 77 THEN X11mouse
      ELSE IF /\ at(1) = 91 /\ at(2) = 60 /\ buf_len >= 9
              /\ (at(buf_len - 1) = 77 \/ at(buf_len - 1) = 109)
             THEN Extended_mouse
      ELSE IF /\ at(1) = 91 /\ at(2) >= 49 /\ at(2) <= 57
              /\ at(3) >= 48 /\ at(3) <= 57 /\ buf_len >= 9
              /\ at(buf_len - 1) = 77
             THEN Urxvt_mouse
      ELSE NOT_SET

getTermcapKey(buf) ==
  LET buf_len == Len(buf)
      match(cap_key) ==
        LET klen == Len(cap_key.string)
        IN  IF klen = 0 \/ klen # buf_len THEN FALSE
            ELSE strncmp_front(buf, cap_key.string, klen)
      found_key == find_if({i \in 1..Len(key_cap) : match(key_cap[i])})
  IN  IF key_cap = <<>> THEN [key |-> NOT_SET, buf |-> buf]
      ELSE IF found_key # 0
        THEN [key |-> key_cap[found_key].num,
              buf |-> pop(buf, Len(key_cap[found_key].string))]
      ELSE [key |-> NOT_SET, buf |-> buf]

\* mutant: an entry matches when it is a prefix of the buffered bytes
getKnownKey_prefix(buf, tmo) ==
  LET buf_len == Len(buf)
      match(known_key) ==
        LET klen == Len(known_key.string)
        IN  IF klen > buf_len THEN FALSE
            ELSE strncmp_front(buf, known_key.string, klen)
      found_key ==
        find_if({i \in 1..Len(fkey_table) : match(fkey_table[i])})
      len == Len(fkey_table[found_key].string)
  IN  IF found_key # 0
        THEN IF /\ len = 2
                /\ (buf[2] = 79 \/ buf[2] = 91 \/ buf[2] = 93)
                /\ ~tmo
               THEN [key |-> Incomplete, buf |-> buf]
               ELSE [key |-> fkey_table[found_key].num, buf |-> pop(buf, len)]
        ELSE [key |-> NOT_SET, buf |-> buf]

\* mutant: a two-byte match is returned at once, timeout or not
getKnownKey_eager(buf, tmo) ==
  LET buf_len == Len(buf)
      match(known_key) ==
        LET klen == Len(known_key.string)
        IN  IF klen # buf_len THEN FALSE
            ELSE strncmp_front(buf, known_key.string, klen)
      found_key ==
        find_if({i \in 1..Len(fkey_table) : match(fkey_table[i])})
      len == Len(fkey_table[found_key].string)
  IN  IF found_key # 0
        THEN [key |-> fkey_table[found_key].num, buf |-> pop(buf, len)]
        ELSE [key |-> NOT_SET, buf |-> buf]

\* mutant: an entry matches when it is a prefix of the buffered bytes
getKnownKey_in_prefix(key_map, buf, tmo) ==
  LET buf_len == Len(buf)
      match(known_key) ==
        LET klen == Len(known_key.string)
        IN  IF klen > buf_len THEN FALSE
            ELSE strncmp_front(buf, known_key.string, klen)
      found_key ==
        find_if({i \in 1..Len(key_map) : match(key_map[i])})
      len == Len(key_map[found_key].string)
  IN  IF found_key # 0
        THEN IF /\ len = 2
                /\ (buf[2] = 79 \/ buf[2] = 91 \/ buf[2] = 93)
                /\ ~tmo
               THEN [key |-> Incomplete, buf |-> buf]
               ELSE [key |-> key_map[found_key].num, buf |-> pop(buf, len)]
        ELSE [key |-> NOT_SET, buf |-> buf]

\* getKnownKey on the known-sequence table key_map
getKnownKey_in(key_map, buf, tmo) ==
  LET buf_len == Len(buf)
      match(known_key) ==
        LET klen == Len(known_key.string)
        IN  IF klen # buf_len THEN FALSE
            ELSE strncmp_front(buf, known_key.string, klen)
      found_key ==
        find_if({i \in 1..Len(key_map) : match(key_map[i])})
      len == Len(key_map[found_key].string)
  IN  IF found_key # 0
        THEN IF /\ len = 2
                /\ (buf[2] = 79 \/ buf[2] = 91 \/ buf[2] = 93)
                /\ ~tmo
               THEN [key |-> Incomplete, buf |-> buf]
               ELSE [key |-> key_map[found_key].num, buf |-> pop(buf, len)]
        ELSE [key |-> NOT_SET, buf |-> buf]

\* getKnownKey: key_map = FKeyMap::getKeyMap(), the table the constructor sorted
getKnownKey(buf, tmo) == getKnownKey_in(fkey_table, buf, tmo)

\* mutant: a continuation byte is masked with 0x1f
UTF8step_mask(ucs, ch, len) ==
  IF AndC0(ch) = 128 THEN Shl6(ucs) + (ch % 32)
  ELSE IF ch < 128 THEN ch
  ELSE IF len = 2 THEN ch % 32
  ELSE IF len = 3 THEN ch % 16
  ELSE IF len = 4 THEN ch % 8
  ELSE NOT_SET

\* one iteration of the loop of UTF8decode
UTF8step(ucs, ch, len) ==
  IF AndC0(ch) = 128 THEN Shl6(ucs) + (ch % 64)
  ELSE IF ch < 128 THEN ch
  ELSE IF len = 2 THEN ch % 32
  ELSE IF len = 3 THEN ch % 16
  ELSE IF len = 4 THEN ch % 8
  ELSE NOT_SET

RECURSIVE UTF8loop(_, _, _, _, _, _)
UTF8loop(buf, stale, len, iter, end, ucs) ==
  IF iter = end THEN ucs
  ELSE UTF8loop(buf, stale, len, iter + 1, end,
                UTF8step(ucs, peek(buf, iter, stale), len))

UTF8decode(buf, len, stale) ==
  LET max == 4
      end == IF len < max THEN len ELSE max
  IN  UTF8loop(buf, stale, len, 0, end, None)

\* mutant: a short multi-byte sequence is decoded without waiting
getSingleKey_nowait(buf, tmo, stale) ==
  LET firstchar == buf[1]
      utf8 == utf8_input /\ AndC0(firstchar) = 192
      len == IF ~utf8 THEN 1
             ELSE IF AndE0(firstchar) = 192 THEN 2
             ELSE IF AndF0(firstchar) = 224 THEN 3
             ELSE IF AndF8(firstchar) = 240 THEN 4
             ELSE 1
      keycode == IF utf8 THEN UTF8decode(buf, len, stale) ELSE firstchar
      keycode2 == IF keycode = 0 THEN Ctrl_space ELSE keycode
  IN  [key |-> IF keycode2 = 127 THEN Backspace ELSE keycode2,
       buf |-> pop(buf, len)]

\* mutant: DEL is returned as the key code 127
getSingleKey_del(buf, tmo, stale) ==
  LET firstchar == buf[1]
      utf8 == utf8_input /\ AndC0(firstchar) = 192
      len == IF ~utf8 THEN 1
             ELSE IF AndE0(firstchar) = 192 THEN 2
             ELSE IF AndF0(firstchar) = 224 THEN 3
             ELSE IF AndF8(firstchar) = 240 THEN 4
             ELSE 1
      keycode == IF utf8 THEN UTF8decode(buf, len, stale) ELSE firstchar
      keycode2 == IF keycode = 0 THEN Ctrl_space ELSE keycode
  IN  IF utf8 /\ Len(buf) < len /\ ~tmo
        THEN [key |-> Incomplete, buf |-> buf]
        ELSE [key |-> keycode2, buf |-> pop(buf, len)]

\* mutant: the remap of NUL to Ctrl_space tests for the space character
getSingleKey_space(buf, tmo, stale) ==
  LET firstchar == buf[1]
      utf8 == utf8_input /\ AndC0(firstchar) = 192
      len == IF ~utf8 THEN 1
             ELSE IF AndE0(firstchar) = 192 THEN 2
             ELSE IF AndF0(firstchar) = 224 THEN 3
             ELSE IF AndF8(firstchar) = 240 THEN 4
             ELSE 1
      keycode == IF utf8 THEN UTF8decode(buf, len, stale) ELSE firstchar
      keycode2 == IF keycode = 32 THEN Ctrl_space ELSE keycode
  IN  IF utf8 /\ Len(buf) < len /\ ~tmo
        THEN [key |-> Incomplete, buf |-> buf]
        ELSE [key |-> IF keycode2 = 127 THEN Backspace ELSE keycode2,
              buf |-> pop(buf, len)]

\* mutant: the key is returned and its bytes stay in the buffer
getSingleKey_keep(buf, tmo, stale) ==
  LET firstchar == buf[1]
      utf8 == utf8_input /\ AndC0(firstchar) = 192
      len == IF ~utf8 THEN 1
             ELSE IF AndE0(firstchar) = 192 THEN 2
             ELSE IF AndF0(firstchar) = 224 THEN 3
             ELSE IF AndF8(firstchar) = 240 THEN 4
             ELSE 1
      keycode == IF utf8 THEN UTF8decode(buf, len, stale) ELSE firstchar
      keycode2 == IF keycode = 0 THEN Ctrl_space ELSE keycode
  IN  IF utf8 /\ Len(buf) < len /\ ~tmo
        THEN [key |-> Incomplete, buf |-> buf]
        ELSE [key |-> IF keycode2 = 127 THEN Backspace ELSE keycode2,
              buf |-> buf]

getSingleKey(buf, tmo, stale) ==
  LET firstchar == buf[1]
      utf8 == utf8_input /\ AndC0(firstchar) = 192
      len == IF ~utf8 THEN 1
             ELSE IF AndE0(firstchar) = 192 THEN 2
             ELSE IF AndF0(firstchar) = 224 THEN 3
             ELSE IF AndF8(firstchar) = 240 THEN 4
             ELSE 1
      keycode == IF utf8 THEN UTF8decode(buf, len, stale) ELSE firstchar
      keycode2 == IF keycode = 0 THEN Ctrl_space ELSE keycode
  IN  IF utf8 /\ Len(buf) < len /\ ~tmo
        THEN [key |-> Incomplete, buf |-> buf]
        ELSE [key |-> IF keycode2 = 127 THEN Backspace ELSE keycode2,
              buf |-> pop(buf, len)]

\* mutant: an escape sequence no stage recognises is decoded without waiting
parseKeyString_fallthrough(buf, tmo, stale) ==
  LET firstchar == buf[1]
      mouse == getMouseProtocolKey(buf, stale)
      termcap == getTermcapKey(buf)
      known == getKnownKey(buf, tmo)
  IN  IF firstchar = ESC
        THEN IF mouse # NOT_SET THEN [key |-> mouse, buf |-> buf]
             ELSE IF termcap.key # NOT_SET THEN termcap
             ELSE IF known.key # NOT_SET THEN known
             ELSE getSingleKey(buf, tmo, stale)
        ELSE getSingleKey(buf, tmo, stale)

\* mutant: the known-sequence table is asked before the capability table
parseKeyString_knownfirst(buf, tmo, stale) ==
  LET firstchar == buf[1]
      mouse == getMouseProtocolKey(buf, stale)
      termcap == getTermcapKey(buf)
      known == getKnownKey(buf, tmo)
  IN  IF firstchar = ESC
        THEN IF mouse # NOT_SET THEN [key |-> mouse, buf |-> buf]
             ELSE IF known.key # NOT_SET THEN known
             ELSE IF termcap.key # NOT_SET THEN termcap
             ELSE IF ~tmo THEN [key |-> Incomplete, buf |-> buf]
             ELSE getSingleKey(buf, tmo, stale)
        ELSE getSingleKey(buf, tmo, stale)

\* mutant: a mouse report is taken out of the buffer when it is recognised
parseKeyString_consume(buf, tmo, stale) ==
  LET firstchar == buf[1]
      mouse == getMouseProtocolKey(buf, stale)
      termcap == getTermcapKey(buf)
      known == getKnownKey(buf, tmo)
  IN  IF firstchar = ESC
        THEN IF mouse # NOT_SET THEN [key |-> mouse, buf |-> <<>>]
             ELSE IF termcap.key # NOT_SET THEN termcap
             ELSE IF known.key # NOT_SET THEN known
             ELSE IF ~tmo THEN [key |-> Incomplete, buf |-> buf]
             ELSE getSingleKey(buf, tmo, stale)
        ELSE getSingleKey(buf, tmo, stale)

parseKeyString(buf, tmo, stale) ==
  LET firstchar == buf[1]
      mouse == getMouseProtocolKey(buf, stale)
      termcap == getTermcapKey(buf)
      known == getKnownKey(buf, tmo)
  IN  IF firstchar = ESC
        THEN IF mouse # NOT_SET THEN [key |-> mouse, buf |-> buf]
             ELSE IF termcap.key # NOT_SET THEN termcap
             ELSE IF known.key # NOT_SET THEN known
             ELSE IF ~tmo THEN [key |-> Incomplete, buf |-> buf]
             ELSE getSingleKey(buf, tmo, stale)
        ELSE getSingleKey(buf, tmo, stale)

\* The positions operator[] is asked for, and the number of bytes pop() is
\* asked to remove, during one call.  && evaluates from left to right and
\* stops at the first operand that is false.
getMouseProtocolKey_peeks(buf, stale) ==
  LET buf_len == Len(buf)
      at(i) == peek(buf, i, stale)
      x11 == {1} \cup (IF at(1) = 91 THEN {2} ELSE {})
      sgr == {1} \cup (IF at(1) = 91 THEN {2} ELSE {})
               \cup (IF at(1) = 91 /\ at(2) = 60 /\ buf_len >= 9
                       THEN {buf_len - 1} ELSE {})
      digit2 == at(1) = 91 /\ at(2) >= 49 /\ at(2) <= 57
      urxvt == {1} \cup (IF at(1) = 91 THEN {2} ELSE {})
                 \cup (IF digit2 THEN {3} ELSE {})
                 \cup (IF digit2 /\ at(3) >= 48 /\ at(3) <= 57 /\ buf_len >= 9
                         THEN {buf_len - 1} ELSE {})
      key263 == getMouseProtocolKey(buf, stale)
  IN  IF ~mouse_support THEN {}
      ELSE IF buf_len >= 6 /\ key263 = X11mouse THEN x11
      ELSE (IF buf_len >= 6 THEN x11 ELSE {})
             \cup sgr
             \cup (IF key263 = Extended_mouse THEN {} ELSE urxvt)

getKnownKey_peeks(buf, tmo) ==
  LET found == {i \in 1..Len(fkey_table) : fkey_table[i].string = buf}
  IN  (0 .. Len(buf) - 1) \cup (IF found # {} /\ Len(buf) = 2 THEN {1} ELSE {})

getSingleKey_peeks(buf, tmo, stale) ==
  LET firstchar == buf[1]
      utf8 == utf8_input /\ AndC0(firstchar) = 192
      len == IF ~utf8 THEN 1
             ELSE IF AndE0(firstchar) = 192 THEN 2
             ELSE IF AndF0(firstchar) = 224 THEN 3
             ELSE IF AndF8(firstchar) = 240 THEN 4
             ELSE 1
  IN  IF utf8 /\ ~(Len(buf) < len /\ ~tmo)
        THEN 0 .. (IF len < 4 THEN len ELSE 4) - 1
        ELSE {0}

\* the argument of the pop() of a parseKeyString call, 0 when there is none
parseKeyString_popped(buf, tmo, stale) ==
  LET firstchar == buf[1]
      utf8 == utf8_input /\ AndC0(firstchar) = 192
      len == IF ~utf8 THEN 1
             ELSE IF AndE0(firstchar) = 192 THEN 2
             ELSE IF AndF0(firstchar) = 224 THEN 3
             ELSE IF AndF8(firstchar) = 240 THEN 4
             ELSE 1
      single == IF getSingleKey(buf, tmo, stale).key = Incomplete THEN 0
                ELSE len
      mouse == getMouseProtocolKey(buf, stale)
      termcap == getTermcapKey(buf)
      known == getKnownKey(buf, tmo)
  IN  IF firstchar = ESC
        THEN IF mouse # NOT_SET THEN 0
             ELSE IF termcap.key # NOT_SET THEN Len(buf) - Len(termcap.buf)
             ELSE IF known.key # NOT_SET THEN Len(buf) - Len(known.buf)
             ELSE IF ~tmo THEN 0
             ELSE single
        ELSE single

parseKeyString_peeks(buf, tmo, stale) ==
  LET firstchar == buf[1]
      mouse == getMouseProtocolKey(buf, stale)
      termcap == getTermcapKey(buf)
      known == getKnownKey(buf, tmo)
      single == getSingleKey_peeks(buf, tmo, stale)
  IN  {0} \cup
      IF firstchar = ESC
        THEN getMouseProtocolKey_peeks(buf, stale) \cup
             IF mouse # NOT_SET THEN {}
             ELSE IF termcap.key # NOT_SET THEN 0 .. Len(buf) - 1
             ELSE (0 .. Len(buf) - 1) \cup getKnownKey_peeks(buf, tmo) \cup
                  IF known.key # NOT_SET \/ ~tmo THEN {} ELSE single
        ELSE single

\* keyCorrection on a terminal that is not the Linux console
keyCorrection(keycode) == keycode

\* substringKeyHandling: the key code it pushes, None when it does nothing
substringKey(buf, tmo) ==
  IF /\ Len(buf) = 2
     /\ buf[1] = ESC
     /\ (buf[2] = 79 \/ buf[2] = 91 \/ buf[2] = 93)
     /\ tmo
    THEN IF buf[2] = 79 THEN Meta_O
         ELSE IF buf[2] = 91 THEN Meta_left_square_bracket
         ELSE Meta_right_square_bracket
    ELSE None

\* mutant: the lone escape byte is taken without waiting for the timeout
escapeKey_notimeout(buf, tmo) == Len(buf) = 1 /\ buf[1] = ESC

\* escapeKeyHandling: whether the escape notification fires
escapeKey(buf, tmo) == Len(buf) = 1 /\ buf[1] = ESC /\ tmo

(***************************************************************************)
(* Notifications and the event queue.                                      *)
(***************************************************************************)
\* a handler ran: which one, the value of key it saw, isQuit() when it returned
notify(kind, k, q) == [kind |-> kind, key |-> k, quit |-> q]

\* mutant: every decode result is taken for a key code
notIncomplete_always(k) == TRUE

\* parseKeyBuffer: if ( fkey != FKey::Incomplete ), the guard of the push
notIncomplete(k) == k # Incomplete

\* mutant: the new code goes to the front of the queue
queue_push_front(q, k) == <<k>> \o q

\* fkey_queue.push(fkey)
queue_push(q, k) == Append(q, k)

\* mutant: no isQuit() check between the press and the release
keyPressedReleased_noquit(k, quit1, quit2) ==
  << notify("press", k, quit1), notify("release", k, quit2) >>

\* processQueuedInput, delivery of one code: keyPressed(), then keyReleased()
\* unless isQuit() holds after the press handler (quit1); quit2 is isQuit()
\* after the release handler
keyPressedReleased(k, quit1, quit2) ==
  IF quit1
    THEN << notify("press", k, quit1) >>
    ELSE << notify("press", k, quit1), notify("release", k, quit2) >>

\* processQueuedInput called from inside a handler and run to its end: the
\* queue, the key and the notifications it leaves.  The handlers it runs
\* neither call the engine again nor change isQuit() (qt).
RECURSIVE processQueuedInput_call(_, _, _, _)
processQueuedInput_call(q, k, ev, qt) ==
  IF q = <<>> THEN [fkey_queue |-> q, key |-> k, events |-> ev]
  ELSE LET c == Head(q)
       IN  IF KeyGreater(c, None)
             THEN IF qt
                    THEN [fkey_queue |-> Tail(q), key |-> c,
                          events |-> Append(ev, notify("nested press", c, qt))]
                    ELSE processQueuedInput_call(Tail(q), None,
                           ev \o << notify("nested press", c, qt),
                                    notify("nested release", c, qt) >>, qt)
             ELSE processQueuedInput_call(Tail(q), c, ev, qt)

(***************************************************************************)
(* Key names.                                                              *)
(***************************************************************************)
\* the state of key_name before the first call
NotAsked == [asked |-> FALSE, num |-> None, string |-> <<>>]

\* mutant: the printable range starts at the space character
getKeyName_space(keynum) ==
  LET found_key ==
        find_if({i \in 1..Len(fkeyname) :
                   fkeyname[i].num # None /\ fkeyname[i].num = keynum})
  IN  IF found_key # 0 THEN fkeyname[found_key].string
      ELSE IF KeyGreater(keynum, 31) /\ KeyGreater(127, keynum)
        THEN << keynum >>
      ELSE <<>>

\* getKeyName(keynum): the bytes of the FString it returns
getKeyName(keynum) ==
  LET found_key ==
        find_if({i \in 1..Len(fkeyname) :
                   fkeyname[i].num # None /\ fkeyname[i].num = keynum})
  IN  IF found_key # 0 THEN fkeyname[found_key].string
      ELSE IF KeyGreater(keynum, 32) /\ KeyGreater(127, keynum)
        THEN << keynum >>
      ELSE <<>>

(***************************************************************************)
(* The descriptor: blocking mode, physical read, availability poll.        *)
(***************************************************************************)
\* setNonBlockingInput(enable): the value of non_blocking_stdin it leaves.
\* fcntl(F_SETFL) on the standard input does not fail: the constructor has
\* aborted if the descriptor could not be queried.
setNonBlockingInput(enable, nb) ==
  IF enable = nb THEN nb
  ELSE IF enable THEN TRUE
  ELSE FALSE

\* readKey on the bytes waiting on stdin: the number of bytes read (0 stands
\* for the -1 of an empty non-blocking descriptor), the byte, the bytes left,
\* the mode during the read and the mode it leaves
readKey(inp, nb) ==
  LET during == setNonBlockingInput(TRUE, nb)
      after == setNonBlockingInput(FALSE, during)
  IN  [ bytes |-> IF inp = <<>> THEN 0 ELSE 1,
        read_character |-> IF inp = <<>> THEN 0 ELSE Head(inp),
        input |-> IF inp = <<>> THEN inp ELSE Tail(inp),
        during |-> during,
        non_blocking_stdin |-> after ]

\* mutant: on a full buffer the oldest byte makes room for the new one
parseKeyBuffer_push_overwrite(buf, c) ==
  IF ~isFull(buf) THEN push(buf, c) ELSE Append(pop(buf, 1), c)

\* parseKeyBuffer: if ( ! fifo_buf.isFull() ) fifo_buf.push(read_character)
parseKeyBuffer_push(buf, c) ==
  IF ~isFull(buf) THEN push(buf, c) ELSE buf

read_blocking_time_short == 5000     \* microseconds

\* isKeyPressed(blocking_time): what it returns, the has_pending_input it
\* leaves, the number of select() calls it made and the wait of the last one.
\* pending is has_pending_input, ready1 is whether stdin is readable when the
\* call begins, ready2 whether it is readable before the wait has run out,
\* tmo is isKeypressTimeout().  select() leaves in ifds the descriptors that
\* are ready: when the first select() has run and found nothing, ifds is
\* empty, and the second select(), given the same ifds, waits for tv_usec and
\* finds nothing.
isKeyPressed_wait(pending, ready1, ready2, blocking_time, nbis, tmo) ==
  LET first == blocking_time > 0 /\ nbis
      ifds == IF first THEN {} ELSE {"stdin"}
      tv_usec == IF tmo \/ ~nbis THEN blocking_time
                 ELSE read_blocking_time_short
      found == "stdin" \in ifds /\ ready2
  IN  IF pending
        THEN [ret |-> FALSE, has_pending_input |-> TRUE,
              selects |-> 0, tv_usec |-> 0]
      ELSE IF first /\ ready1
        THEN [ret |-> TRUE, has_pending_input |-> TRUE,
              selects |-> 1, tv_usec |-> 0]
      ELSE [ret |-> found, has_pending_input |-> found,
            selects |-> IF first THEN 2 ELSE 1, tv_usec |-> tv_usec]

\* isKeyPressed when no byte arrives while it runs: stdin is readable during
\* the wait exactly when it was readable at the beginning
isKeyPressed_call(pending, ready, blocking_time, nbis, tmo) ==
  isKeyPressed_wait(pending, ready, ready, blocking_time, nbis, tmo)

(***************************************************************************)
(* Inputs: what the terminal sends during a run.                           *)
(***************************************************************************)
MaxShort == 2           \* every byte sequence over Alphabet up to this length

Alphabet == {27, 79, 91, 97}

\* what the application passes to isKeyPressed, in microseconds
BlockingTimes == {0, 100000}

StaleBytes == {0, 65, 128}

StaleSeqs == [1..3 -> StaleBytes]

NoStale == [i \in 1..3 |-> 0]

ShortInputs == UNION {[1..n -> Alphabet] : n \in 0..MaxShort}

LongInputs ==
  { <<97, 98, 99, 100, 101>>,              \* printable ASCII
    <<97, 27, 120, 121>>,                  \* ESC and bytes no table knows
    <<27, 79, 65>>,                        \* a capability sequence
    <<27, 91, 65>>,                        \* a known sequence
    <<126, 32, 0, 127>> }                  \* ~, space, NUL, DEL

Inputs == ShortInputs \cup LongInputs

Utf8Leads == {240, 247}

Utf8Tails == {128, 159, 191}

Utf8Inputs ==
  { <<l, a, b, c>> : l \in Utf8Leads, a \in {128, 191}, b \in {128, 191},
                     c \in Utf8Tails }
    \cup { <<195, 164>>, <<226, 130, 172>>, <<240, 159, 97>>, <<248, 128>>,
           <<192, 128>>, <<97, 195, 164, 98>>, <<240, 128, 129, 191>> }

ModeInputs == {<<97>>, <<97, 98>>, <<27, 79>>, <<97, 27, 98>>}

MaxKeyNum == 140        \* getKeyName is asked every code up to this one

KeyNums ==
  (0..MaxKeyNum) \cup {Backspace, Ctrl_space, Up, Meta_O, Meta_a, X11mouse,
                       Incomplete, NOT_SET}

\* sequences that more than one stage of parseKeyString recognises
PrecInputs ==
  { <<27, 91, 65>>, <<27, 91, 77, 32, 33, 34>>, <<27, 91, 77, 35, 36, 37>>,
    <<27, 79, 65>> }

\* sequences no table knows, a lone escape, plain keys, a mouse report
LiveInputs ==
  { <<27, 120>>, <<27>>, <<97, 98>>, <<27, 79>>, <<27, 120, 121>>,
    <<27, 91, 77, 32, 33, 34>> }

\* an escape sequence longer than the ring buffer
FullInputs == { <<27, 48, 49, 50, 51, 52, 53, 54, 55, 56, 57, 58>> }

\* ESC followed by 'O', '[' or ']', alone, after a key and before a third byte
SubInputs ==
  { <<27, 79>>, <<27, 91>>, <<27, 93>>, <<27, 79, 65>>, <<27, 91, 65>>,
    <<97, 27, 93>>, <<27, 93, 97>> }

\* mouse reports of the three formats and sequences close to them
ShapeInputs ==
  { <<27, 91, 77, 32, 33, 34, 97>>,             \* legacy report, then 'a'
    <<27, 91, 60, 48, 59, 49, 59, 49, 109>>,    \* ESC [ < 0 ; 1 ; 1 m
    <<27, 91, 51, 50, 59, 49, 59, 49, 77>>,     \* ESC [ 3 2 ; 1 ; 1 M
    <<27, 91, 48, 53, 59, 49, 59, 49, 77>> }    \* ESC [ 0 5 ; 1 ; 1 M

\* keys typed ahead of a handler that runs an event loop of its own
ReenterInputs == { <<97>>, <<97, 98>>, <<97, 98, 99>>, <<27, 97, 98>> }

\* sequences of the known table, one of them a prefix of another, and a
\* sequence it does not hold
OrderInputs == { <<27, 91>>, <<27, 91, 65>>, <<27, 97>>, <<27, 91, 66>> }

\* the values of a byte
Bytes == 0..255

\* every byte alone
ByteInputs == { <<b>> : b \in Bytes }

\* more plain keys than the queue holds, short and whole multi-byte
\* sequences, sequences no table knows, a mouse report followed by a key
ProgressInputs ==
  { <<97, 98, 99, 100, 101>>, <<195>>, <<240, 159, 152>>, <<195, 164, 97>>,
    <<27, 120, 121>>, <<27, 79>>, <<27, 91, 77, 32, 33, 34, 97>> }

MouseInputs ==
  { <<27, 91, 77, a, b, c>> : a \in {32, 77}, b \in {33}, c \in {34, 27} }
    \cup { <<27, 91, 77, 32, 33, 34, 97>>,
           <<27, 91, 60, 48, 59, 49, 59, 49, 77>>,
           <<27, 91, 51, 50, 59, 49, 59, 49, 77>>,
           <<27, 91, 65>>, <<97, 98>> }

(***************************************************************************)
(* Initial state: the state after construction, with the configuration the *)
(* application chose and the input the terminal will send.                 *)
(***************************************************************************)
Start(inputs, utf8, mouse, caps, nbis) ==
  /\ stream \in inputs
  /\ input = <<>>
  /\ fifo_buf = <<>>
  /\ fkey_queue = <<>>
  /\ fkey = None
  /\ key = None
  /\ has_pending_input = FALSE
  /\ timed_out = TRUE          \* time_keypressed is the epoch
  /\ quit = FALSE
  /\ utf8_input \in utf8
  /\ mouse_support \in mouse
  /\ key_cap \in caps
  /\ pc = "idle"
  /\ events = <<>>
  /\ pushed = <<>>
  /\ readlog = <<>>
  /\ non_blocking_input_support \in nbis
  /\ non_blocking_stdin = FALSE
  /\ key_name = NotAsked

Init == Start(Inputs, BOOLEAN, BOOLEAN, {<<>>, fkey_cap_table}, {TRUE})

\* UTF-8 input; mouse_support at its default, no capability table
InitUtf8 == Start(Utf8Inputs, BOOLEAN, {TRUE}, {<<>>}, {TRUE})

\* mouse reports; utf8_input at its default, no capability table
InitMouse == Start(MouseInputs, {FALSE}, BOOLEAN, {<<>>}, {TRUE})

(***************************************************************************)
(* Environment.                                                            *)
(***************************************************************************)
\* the terminal delivers its next byte to stdin
Arrive ==
  /\ stream # <<>>
  /\ input' = Append(input, Head(stream))
  /\ stream' = Tail(stream)
  /\ UNCHANGED << fifo_buf, fkey_queue, fkey, key, has_pending_input,
                  timed_out, quit, config, pc, events, pushed, readlog,
                  non_blocking_stdin, key_name >>

\* key_timeout passes since time_keypressed
Tick ==
  /\ ~timed_out
  /\ timed_out' = TRUE
  /\ UNCHANGED << stream, input, fifo_buf, fkey_queue, fkey, key,
                  has_pending_input, quit, config, pc, events, pushed,
                  readlog,
                  non_blocking_stdin, key_name >>

(***************************************************************************)
(* Engine operations.                                                      *)
(***************************************************************************)
\* fetchKeyCode, and the first statement of parseKeyBuffer
fetchKeyCode ==
  /\ pc = "idle"
  /\ IF Len(fkey_queue) < MAX_QUEUE_SIZE
       THEN /\ timed_out' = FALSE      \* time_keypressed = getCurrentTime()
            /\ pc' = "read"
       ELSE UNCHANGED << timed_out, pc >>
  /\ UNCHANGED << stream, input, fifo_buf, fkey_queue, fkey, key,
                  has_pending_input, quit, config, events, pushed, readlog,
                  non_blocking_stdin, key_name >>

\* mutant: a successful read leaves has_pending_input as it was
parseKeyBuffer_read_pending ==
  /\ pc = "read"
  /\ LET r == readKey(input, non_blocking_stdin)
     IN  /\ non_blocking_stdin' = r.non_blocking_stdin
         /\ input' = r.input
         /\ IF r.bytes > 0
              THEN /\ readlog' = Append(readlog, r.read_character)
                   /\ has_pending_input' = has_pending_input
                   /\ fifo_buf' = parseKeyBuffer_push(fifo_buf,
                                                      r.read_character)
                   /\ pc' = "parse"
              ELSE /\ pc' = "idle"
                   /\ UNCHANGED << fifo_buf, has_pending_input, readlog >>
  /\ UNCHANGED << stream, fkey_queue, fkey, key, timed_out, quit, config,
                  events, pushed,
                  key_name >>

\* parseKeyBuffer: while ( readKey() > 0 ) and the push of the byte read
parseKeyBuffer_read ==
  /\ pc = "read"
  /\ LET r == readKey(input, non_blocking_stdin)
     IN  /\ non_blocking_stdin' = r.non_blocking_stdin
         /\ input' = r.input
         /\ IF r.bytes > 0
              THEN /\ readlog' = Append(readlog, r.read_character)
                   /\ has_pending_input' = FALSE
                   /\ fifo_buf' = parseKeyBuffer_push(fifo_buf,
                                                      r.read_character)
                   /\ pc' = "parse"
              ELSE /\ pc' = "idle"
                   /\ UNCHANGED << fifo_buf, has_pending_input, readlog >>
  /\ UNCHANGED << stream, fkey_queue, fkey, key, timed_out, quit, config,
                  events, pushed,
                  key_name >>

\* parseKeyBuffer: one iteration of the inner loop, or what follows the loop
parseKeyBuffer_parse ==
  /\ pc = "parse"
  /\ IF hasData(fifo_buf) /\ fkey # Incomplete
       THEN \E stale \in IF Len(fifo_buf) < 4 THEN StaleSeqs ELSE {NoStale} :
              LET r == parseKeyString(fifo_buf, timed_out, stale)
                  k == keyCorrection(r.key)
              IN  /\ fifo_buf' = r.buf
                  /\ IF k \in MouseKeys
                       THEN \* key = fkey; mouseTracking(); break; fkey = None
                            /\ key' = k
                            /\ events' = Append(events, notify("mouse", k, quit))
                            /\ fkey' = None
                            /\ pc' = IF Len(fkey_queue) >= MAX_QUEUE_SIZE
                                       THEN "idle" ELSE "read"
                            /\ UNCHANGED << fkey_queue, pushed >>
                       ELSE /\ fkey' = k
                            /\ IF notIncomplete(k)
                                 THEN /\ fkey_queue' = queue_push(fkey_queue, k)
                                      /\ pushed' = Append(pushed, k)
                                 ELSE UNCHANGED << fkey_queue, pushed >>
                            /\ UNCHANGED << key, events, pc >>
       ELSE /\ fkey' = None
            /\ pc' = IF Len(fkey_queue) >= MAX_QUEUE_SIZE
                       THEN "idle" ELSE "read"
            /\ UNCHANGED << fifo_buf, fkey_queue, key, events, pushed >>
  /\ UNCHANGED << stream, input, has_pending_input, timed_out, quit, config,
                  readlog,
                  non_blocking_stdin, key_name >>

\* escapeKeyHandling, with the substringKeyHandling it ends with
escapeKeyHandling ==
  /\ pc = "idle"
  /\ LET esc == escapeKey(fifo_buf, timed_out)
         buf1 == IF esc THEN <<>> ELSE fifo_buf
         sub == substringKey(buf1, timed_out)
     IN  /\ events' = IF esc
                          THEN Append(events, notify("escape", key, quit))
                          ELSE events
         /\ IF sub # None
              THEN /\ fkey' = sub
                   /\ fkey_queue' = queue_push(fkey_queue, sub)
                   /\ pushed' = Append(pushed, sub)
                   /\ fifo_buf' = <<>>
              ELSE /\ fifo_buf' = buf1
                   /\ UNCHANGED << fkey, fkey_queue, pushed >>
  /\ UNCHANGED << stream, input, key, has_pending_input, timed_out, quit,
                  config, pc, readlog,
                  non_blocking_stdin, key_name >>

\* mutant: the timeout resets fkey and key and keeps the buffered bytes
clearKeyBufferOnTimeout_keep ==
  /\ pc = "idle"
  /\ IF hasData(fifo_buf) /\ timed_out
       THEN /\ fkey' = None
            /\ key' = None
            /\ fifo_buf' = fifo_buf
       ELSE UNCHANGED << fkey, key, fifo_buf >>
  /\ UNCHANGED << stream, input, fkey_queue, has_pending_input, timed_out,
                  quit, config, pc, events, pushed, readlog,
                  non_blocking_stdin, key_name >>

\* mutant: the buffer is emptied whether or not the timeout has elapsed
clearKeyBufferOnTimeout_always ==
  /\ pc = "idle"
  /\ IF hasData(fifo_buf)
       THEN /\ fkey' = None
            /\ key' = None
            /\ fifo_buf' = <<>>
       ELSE UNCHANGED << fkey, key, fifo_buf >>
  /\ UNCHANGED << stream, input, fkey_queue, has_pending_input, timed_out,
                  quit, config, pc, events, pushed, readlog,
                  non_blocking_stdin, key_name >>

\* clearKeyBufferOnTimeout, with the clearKeyBuffer it calls
clearKeyBufferOnTimeout ==
  /\ pc = "idle"
  /\ IF hasData(fifo_buf) /\ timed_out
       THEN /\ fkey' = None
            /\ key' = None
            /\ fifo_buf' = <<>>
       ELSE UNCHANGED << fkey, key, fifo_buf >>
  /\ UNCHANGED << stream, input, fkey_queue, has_pending_input, timed_out,
                  quit, config, pc, events, pushed, readlog,
                  non_blocking_stdin, key_name >>

\* processQueuedInput is called
processQueuedInput ==
  /\ pc = "idle"
  /\ pc' = "drain"
  /\ UNCHANGED << stream, input, fifo_buf, fkey_queue, fkey, key,
                  has_pending_input, timed_out, quit, config, events, pushed,
                  readlog,
                  non_blocking_stdin, key_name >>

\* mutant: a return on quit drops the codes still queued
processQueuedInput_loop_flush ==
  /\ pc = "drain"
  /\ IF fkey_queue = <<>>
       THEN /\ pc' = "idle"
            /\ UNCHANGED << fkey_queue, key, quit, events >>
       ELSE LET k == Head(fkey_queue)
            IN  IF KeyGreater(k, None)
                  THEN \E quit1 \in {quit, TRUE}, quit2 \in {quit, TRUE} :
                         LET fired == keyPressedReleased(k, quit1, quit2)
                             stop == fired[Len(fired)].quit
                         IN  /\ events' = events \o fired
                             /\ quit' = stop
                             /\ key' = IF stop THEN k ELSE None
                             /\ pc' = IF stop THEN "idle" ELSE "drain"
                             /\ fkey_queue' = IF stop THEN <<>>
                                              ELSE Tail(fkey_queue)
                  ELSE /\ key' = k
                       /\ fkey_queue' = Tail(fkey_queue)
                       /\ UNCHANGED << quit, events, pc >>
  /\ UNCHANGED << stream, input, fifo_buf, fkey, has_pending_input,
                  timed_out, config, pushed, readlog,
                  non_blocking_stdin, key_name >>

\* processQueuedInput: one iteration of its loop, or its return.  The press
\* and release handlers are the application's; either may request quit.
processQueuedInput_loop ==
  /\ pc = "drain"
  /\ IF fkey_queue = <<>>
       THEN /\ pc' = "idle"
            /\ UNCHANGED << fkey_queue, key, quit, events >>
       ELSE LET k == Head(fkey_queue)
            IN  /\ fkey_queue' = Tail(fkey_queue)
                /\ IF KeyGreater(k, None)
                     THEN \E quit1 \in {quit, TRUE}, quit2 \in {quit, TRUE} :
                            LET fired == keyPressedReleased(k, quit1, quit2)
                                stop == fired[Len(fired)].quit
                            IN  /\ events' = events \o fired
                                /\ quit' = stop
                                /\ key' = IF stop THEN k ELSE None
                                /\ pc' = IF stop THEN "idle" ELSE "drain"
                     ELSE /\ key' = k
                          /\ UNCHANGED << quit, events, pc >>
  /\ UNCHANGED << stream, input, fifo_buf, fkey, has_pending_input,
                  timed_out, config, pushed, readlog,
                  non_blocking_stdin, key_name >>

\* mutant: the poll takes the byte it finds
isKeyPressed_consume ==
  /\ pc = "idle"
  /\ \E blocking_time \in BlockingTimes :
       LET r == isKeyPressed_call(has_pending_input, input # <<>>,
                                  blocking_time, non_blocking_input_support,
                                  timed_out)
       IN  /\ has_pending_input' = r.has_pending_input
           /\ input' = IF r.ret THEN Tail(input) ELSE input
  /\ UNCHANGED << stream, fifo_buf, fkey_queue, fkey, key, timed_out,
                  quit, config, pc, events, pushed, readlog,
                  non_blocking_stdin, key_name >>

\* isKeyPressed, no byte arriving while it runs: select() reports stdin
\* readable when a byte is waiting.
isKeyPressed ==
  /\ pc = "idle"
  /\ \E blocking_time \in BlockingTimes :
       LET r == isKeyPressed_call(has_pending_input, input # <<>>,
                                  blocking_time, non_blocking_input_support,
                                  timed_out)
       IN  has_pending_input' = r.has_pending_input
  /\ UNCHANGED << stream, input, fifo_buf, fkey_queue, fkey, key, timed_out,
                  quit, config, pc, events, pushed, readlog,
                  non_blocking_stdin, key_name >>

\* isKeyPressed with the next byte of the terminal arriving during the wait
\* of its last select()
isKeyPressed_during ==
  /\ pc = "idle"
  /\ stream # <<>>
  /\ \E blocking_time \in BlockingTimes :
       LET r == isKeyPressed_wait(has_pending_input, input # <<>>, TRUE,
                                  blocking_time, non_blocking_input_support,
                                  timed_out)
       IN  /\ r.tv_usec > 0
           /\ has_pending_input' = r.has_pending_input
  /\ input' = Append(input, Head(stream))
  /\ stream' = Tail(stream)
  /\ UNCHANGED << fifo_buf, fkey_queue, fkey, key, timed_out,
                  quit, config, pc, events, pushed, readlog,
                  non_blocking_stdin, key_name >>

\* the application calls setNonBlockingInput (unsetNonBlockingInput is
\* setNonBlockingInput(false))
App_setNonBlockingInput ==
  /\ pc = "idle"
  /\ \E enable \in BOOLEAN :
       non_blocking_stdin' = setNonBlockingInput(enable, non_blocking_stdin)
  /\ UNCHANGED << stream, input, fifo_buf, fkey_queue, fkey, key,
                  has_pending_input, timed_out, quit, config, pc, events,
                  pushed, readlog, key_name >>

\* the application asks for the name of a key code
App_getKeyName ==
  /\ pc = "idle"
  /\ \E keynum \in KeyNums :
       key_name' = [asked |-> TRUE, num |-> keynum,
                    string |-> getKeyName(keynum)]
  /\ UNCHANGED << stream, input, fifo_buf, fkey_queue, fkey, key,
                  has_pending_input, timed_out, quit, config, pc, events,
                  pushed, readlog, non_blocking_stdin >>

\* processQueuedInput, one iteration of its loop up to the call of the press
\* handler: key = fkey_queue.front(); fkey_queue.pop(); keyPressed().  The
\* notification records the key the handler sees and isQuit() on its entry.
processQueuedInput_press ==
  /\ pc = "drain"
  /\ IF fkey_queue = <<>>
       THEN /\ pc' = "idle"
            /\ UNCHANGED << fkey_queue, key, events >>
       ELSE LET k == Head(fkey_queue)
            IN  /\ fkey_queue' = Tail(fkey_queue)
                /\ key' = k
                /\ IF KeyGreater(k, None)
                     THEN /\ events' = Append(events, notify("press", k, quit))
                          /\ pc' = "pressed"
                     ELSE UNCHANGED << events, pc >>
  /\ UNCHANGED << stream, input, fifo_buf, fkey, has_pending_input,
                  timed_out, quit, config, pushed, readlog,
                  non_blocking_stdin, key_name >>

\* the press handler runs an event loop of its own (a modal dialog), which
\* calls processQueuedInput
keyPressed_reenter ==
  /\ pc = "pressed"
  /\ LET r == processQueuedInput_call(fkey_queue, key, events, quit)
     IN  /\ fkey_queue' = r.fkey_queue
         /\ key' = r.key
         /\ events' = r.events
  /\ UNCHANGED << stream, input, fifo_buf, fkey, has_pending_input,
                  timed_out, quit, config, pc, pushed, readlog,
                  non_blocking_stdin, key_name >>

\* processQueuedInput, the rest of the iteration: the press handler returns
\* (quit1 is isQuit() then), keyReleased() is called with key as it is now
\* (quit2 is isQuit() after it), key = FKey::None
processQueuedInput_release ==
  /\ pc = "pressed"
  /\ \E quit1 \in {quit, TRUE}, quit2 \in {quit, TRUE} :
       IF quit1
         THEN /\ quit' = TRUE
              /\ pc' = "idle"
              /\ UNCHANGED << key, events >>
         ELSE /\ events' = Append(events, notify("release", key, quit2))
              /\ quit' = quit2
              /\ key' = IF quit2 THEN key ELSE None
              /\ pc' = IF quit2 THEN "idle" ELSE "drain"
  /\ UNCHANGED << stream, input, fifo_buf, fkey_queue, fkey,
                  has_pending_input, timed_out, config, pushed, readlog,
                  non_blocking_stdin, key_name >>

Next ==
  \/ Arrive
  \/ Tick
  \/ fetchKeyCode
  \/ parseKeyBuffer_read
  \/ parseKeyBuffer_parse
  \/ escapeKeyHandling
  \/ clearKeyBufferOnTimeout
  \/ processQueuedInput
  \/ processQueuedInput_loop
  \/ isKeyPressed

Spec == Init /\ [][Next]_vars

SpecUtf8 == InitUtf8 /\ [][Next]_vars

SpecMouse == InitMouse /\ [][Next]_vars

\* overlapping tables, mouse tracking on and off
InitPrec == Start(PrecInputs, {FALSE}, BOOLEAN, {fkey_cap_table_overlap}, {TRUE})

SpecPrec == InitPrec /\ [][Next]_vars

\* more bytes in flight than the ring buffer holds
InitFull == Start(FullInputs, {FALSE}, {FALSE}, {<<>>}, {TRUE})

SpecFull == InitFull /\ [][Next]_vars

\* The engine under fair repetition of its operations: a call that has begun
\* runs to its end (the two loops go on), time passes, and the outer loop,
\* which calls clearKeyBufferOnTimeout on every round, calls it again and
\* again at a moment when the keypress timeout has elapsed.
Fairness ==
  /\ WF_vars(parseKeyBuffer_read)
  /\ WF_vars(parseKeyBuffer_parse)
  /\ WF_vars(processQueuedInput_loop)
  /\ WF_vars(Tick)
  /\ SF_vars(clearKeyBufferOnTimeout)

InitLive == Start(LiveInputs, {FALSE}, BOOLEAN, {<<>>}, {TRUE})

SpecLive == InitLive /\ [][Next]_vars /\ Fairness

\* the engine with an application that also sets the mode of stdin itself
NextMode == Next \/ App_setNonBlockingInput

InitMode == Start(ModeInputs, {FALSE}, {FALSE}, {<<>>}, BOOLEAN)

SpecMode == InitMode /\ [][NextMode]_vars

\* the name lookup alone
NextKeyName == App_getKeyName

InitKeyName == Start({<<>>}, {FALSE}, {FALSE}, {<<>>}, {TRUE})

SpecKeyName == InitKeyName /\ [][NextKeyName]_vars

\* two-byte escape sequences, without a capability table and with one that
\* holds them
InitSub == Start(SubInputs, {FALSE}, {FALSE}, {<<>>, fkey_cap_table_meta}, {TRUE})

SpecSub == InitSub /\ [][Next]_vars

\* mouse tracking enabled, reports of every format
InitShape == Start(ShapeInputs, {FALSE}, {TRUE}, {<<>>}, {TRUE})

SpecShape == InitShape /\ [][Next]_vars

\* delivery with a press handler that may call processQueuedInput itself
NextReenter ==
  \/ Arrive
  \/ Tick
  \/ fetchKeyCode
  \/ parseKeyBuffer_read
  \/ parseKeyBuffer_parse
  \/ escapeKeyHandling
  \/ processQueuedInput
  \/ processQueuedInput_press
  \/ keyPressed_reenter
  \/ processQueuedInput_release

InitReenter == Start(ReenterInputs, {FALSE}, {FALSE}, {<<>>}, {TRUE})

SpecReenter == InitReenter /\ [][NextReenter]_vars

\* known sequences only: no capability table, no mouse tracking
InitOrder == Start(OrderInputs, {FALSE}, {FALSE}, {<<>>}, {TRUE})

SpecOrder == InitOrder /\ [][Next]_vars

\* one byte of any value, UTF-8 input enabled and disabled
InitByte == Start(ByteInputs, BOOLEAN, {FALSE}, {<<>>}, {TRUE})

SpecByte == InitByte /\ [][Next]_vars

\* the engine under fair repetition of its operations, with UTF-8 input and
\* mouse tracking on or off and inputs that fill the event queue
InitProgress == Start(ProgressInputs, BOOLEAN, BOOLEAN, {<<>>}, {TRUE})

SpecProgress == InitProgress /\ [][Next]_vars /\ Fairness

\* the engine with bytes that arrive while isKeyPressed waits
NextPoll == Next \/ isKeyPressed_during

SpecPoll == InitMode /\ [][NextPoll]_vars

(***************************************************************************)
(* Properties.                                                             *)
(***************************************************************************)
\* an iteration of the inner loop of parseKeyBuffer (a decode attempt)
DecodeStep == parseKeyBuffer_parse /\ hasData(fifo_buf) /\ fkey # Incomplete

\* an iteration of the loop of processQueuedInput that takes a code
DrainStep == pc = "drain" /\ fkey_queue # <<>> /\ fkey_queue' = Tail(fkey_queue)

Printable(b) == b >= 32 /\ b <= 126

AllPrintable(s) == \A i \in 1..Len(s) : Printable(s[i])

KeysOf(ev, kind) ==
  LET sel == SelectSeq(ev, LAMBDA e : e.kind = kind)
  IN  [i \in 1..Len(sel) |-> sel[i].key]

AboveNone(q) == SelectSeq(q, LAMBDA k : KeyGreater(k, None))

\* C1: when only printable ASCII bytes (0x20..0x7E) have been read, fewer than
\* the queue capacity, and nothing has been delivered yet, then once the
\* decode loop has handled the last byte read the event queue holds exactly
\* the bytes read, as key codes equal to the byte values and in input order,
\* and the ring buffer is empty.
C1_PrintableAscii ==
  (/\ AllPrintable(readlog)
   /\ Len(readlog) < MAX_QUEUE_SIZE
   /\ events = <<>>
   /\ pc # "parse")
    => (fkey_queue = readlog /\ pushed = readlog /\ fifo_buf = <<>>)

C1_Witness ==
  /\ pc = "idle" /\ stream = <<>> /\ input = <<>>
  /\ readlog = <<79, 97>>
  /\ fkey_queue = <<79, 97>>
  /\ fifo_buf = <<>>

\* C2: a drained code greater than None fires the press notification first;
\* if quit holds after the press handler nothing else fires for it and the
\* call returns, otherwise the release notification for the same code follows.
C2_PressThenRelease ==
  [][ (DrainStep /\ KeyGreater(Head(fkey_queue), None)) =>
        LET k == Head(fkey_queue)
            new == SubSeq(events', Len(events) + 1, Len(events'))
        IN  /\ Len(new) >= 1
            /\ new[1].kind = "press" /\ new[1].key = k
            /\ IF new[1].quit
                 THEN Len(new) = 1 /\ pc' = "idle"
                 ELSE /\ Len(new) = 2
                      /\ new[2].kind = "release" /\ new[2].key = k ]_vars

C2_Witness ==
  /\ Len(events) >= 3
  /\ events[1].kind = "press" /\ ~events[1].quit
  /\ events[2].kind = "release"
  /\ events[Len(events)].kind = "press" /\ events[Len(events)].quit
  /\ fkey_queue # <<>>

\* C3: the codes the press notifications have seen, followed by the codes
\* above None still queued, are exactly the codes above None pushed so far:
\* delivery is in push order, nothing twice, skipped or reordered.
C3_FifoDelivery ==
  KeysOf(events, "press") \o AboveNone(fkey_queue) = AboveNone(pushed)

C3_Witness ==
  /\ Len(KeysOf(events, "press")) >= 2
  /\ KeysOf(events, "press")[1] # KeysOf(events, "press")[2]
  /\ fkey_queue # <<>>
  /\ Len(pushed) >= 4

CountOf(ev, kind) == Len(SelectSeq(ev, LAMBDA e : e.kind = kind))

CountByte(s, b) == Len(SelectSeq(s, LAMBDA c : c = b))

\* C4: with exactly one byte 0x1B buffered and no byte read, nothing is
\* emitted for it while the keypress timeout has not elapsed (no code pushed,
\* no escape or mouse notification, the byte stays); once the timeout has
\* elapsed escapeKeyHandling fires the escape notification once, pushes
\* nothing and leaves the buffer empty; and escape notifications never
\* outnumber the escape bytes read, so that a repeated call adds none.
C4_LoneEscape ==
  /\ [][ /\ (fifo_buf = <<ESC>> /\ ~timed_out /\ readlog' = readlog) =>
             /\ pushed' = pushed
             /\ CountOf(events', "escape") = CountOf(events, "escape")
             /\ CountOf(events', "mouse") = CountOf(events, "mouse")
             /\ fifo_buf' = fifo_buf
         /\ (escapeKeyHandling /\ fifo_buf = <<ESC>> /\ timed_out) =>
             /\ events' = Append(events, notify("escape", key, quit))
             /\ fifo_buf' = <<>>
             /\ pushed' = pushed ]_vars
  /\ [](CountOf(events, "escape") <= CountByte(readlog, ESC))

C4_Witness ==
  /\ readlog = <<ESC>>
  /\ CountOf(events, "escape") = 1
  /\ fifo_buf = <<>>
  /\ pushed = <<>>
  /\ stream = <<>> /\ input = <<>>

\* C5: with exactly ESC 'O' buffered, a decode attempt made while the
\* keypress timeout has not elapsed reports Incomplete, pushes nothing and
\* leaves both bytes buffered, and escapeKeyHandling does nothing; once the
\* timeout has elapsed, either of them pushes exactly one Meta_O and empties
\* the buffer.
C5_EscO ==
  [][ (fifo_buf = <<ESC, 79>> /\ (DecodeStep \/ escapeKeyHandling)) =>
        IF ~timed_out
          THEN /\ pushed' = pushed
               /\ fkey_queue' = fkey_queue
               /\ fifo_buf' = fifo_buf
               /\ events' = events
               /\ DecodeStep => fkey' = Incomplete
          ELSE /\ pushed' = Append(pushed, Meta_O)
               /\ fkey_queue' = Append(fkey_queue, Meta_O)
               /\ fifo_buf' = <<>> ]_vars

C5_Witness ==
  /\ readlog = <<ESC, 79>>
  /\ pushed = <<Meta_O>>
  /\ fifo_buf = <<>>
  /\ fkey = Meta_O

C5_WitnessIncomplete ==
  /\ fifo_buf = <<ESC, 79>>
  /\ fkey = Incomplete
  /\ pushed = <<>>

IsCont(b) == AndC0(b) = 128

IsLead4(b) == AndF8(b) = 240

\* the length a multi-byte lead byte announces, 0 for any other byte
AnnouncedLen(b) ==
  IF AndE0(b) = 192 THEN 2
  ELSE IF AndF0(b) = 224 THEN 3
  ELSE IF AndF8(b) = 240 THEN 4
  ELSE 0

\* the 21-bit code point of a four-byte UTF-8 sequence
CodePoint4(s) ==
  (s[1] % 8) * 262144 + (s[2] % 64) * 4096 + (s[3] % 64) * 64 + (s[4] % 64)

IsUtf8Four(s) ==
  /\ Len(s) = 4
  /\ IsLead4(s[1])
  /\ IsCont(s[2]) /\ IsCont(s[3]) /\ IsCont(s[4])

\* C6 as stated: with UTF-8 input enabled, a decode attempt on a buffer that
\* holds a lead byte 11110xxx and three continuation bytes 10xxxxxx pushes
\* exactly one key code, the 21-bit code point of the four bytes, and removes
\* exactly these 4 bytes from the ring buffer.
C6_Utf8FourBytes ==
  [][ (DecodeStep /\ utf8_input /\ IsUtf8Four(fifo_buf)) =>
        /\ pushed' = Append(pushed, CodePoint4(fifo_buf))
        /\ fkey_queue' = Append(fkey_queue, CodePoint4(fifo_buf))
        /\ fifo_buf' = <<>> ]_vars

\* what getSingleKey makes of a decoded value
Remapped(c) == IF c = 0 THEN Ctrl_space ELSE IF c = 127 THEN Backspace ELSE c

\* C6 as amended: the key code pushed is the 21-bit code point of the four
\* bytes, except that the code point 0 is pushed as Ctrl_space and the code
\* point 127 as Backspace; exactly one code is pushed and exactly the 4 bytes
\* are removed.
C6_Utf8FourBytesRemapped ==
  [][ (DecodeStep /\ utf8_input /\ IsUtf8Four(fifo_buf)) =>
        /\ pushed' = Append(pushed, Remapped(CodePoint4(fifo_buf)))
        /\ fkey_queue' = Append(fkey_queue, Remapped(CodePoint4(fifo_buf)))
        /\ fifo_buf' = <<>> ]_vars

C6_Witness ==
  /\ utf8_input
  /\ readlog = <<247, 191, 191, 191>>
  /\ pushed = <<2097151>>
  /\ fifo_buf = <<>>

\* C7: with UTF-8 input enabled, a decode attempt on a buffer that starts
\* with a multi-byte lead byte and holds fewer bytes than the lead byte
\* announces, made while the keypress timeout has not elapsed, reports
\* Incomplete, removes no byte and pushes nothing.
C7_Utf8Incomplete ==
  [][ (/\ DecodeStep /\ utf8_input /\ ~timed_out
       /\ Len(fifo_buf) < AnnouncedLen(fifo_buf[1])) =>
        /\ fkey' = Incomplete
        /\ fifo_buf' = fifo_buf
        /\ pushed' = pushed
        /\ fkey_queue' = fkey_queue ]_vars

C7_Witness ==
  /\ utf8_input
  /\ fkey = Incomplete
  /\ Len(fifo_buf) = 3 /\ IsLead4(fifo_buf[1])
  /\ IsCont(fifo_buf[2]) /\ IsCont(fifo_buf[3])
  /\ pushed = <<>>

IsX11Report(s) == Len(s) = 6 /\ s[1] = ESC /\ s[2] = 91 /\ s[3] = 77

C9_NoMouseWhenDisabled ==
  ~mouse_support =>
    /\ CountOf(events, "mouse") = 0
    /\ fkey \notin MouseKeys
    /\ key \notin MouseKeys
    /\ \A i \in 1..Len(pushed) : pushed[i] \notin MouseKeys
    /\ \A stale \in StaleSeqs : getMouseProtocolKey(fifo_buf, stale) = NOT_SET

C9_Witness ==
  /\ ~mouse_support
  /\ IsX11Report(readlog)
  /\ pc = "idle"
  /\ fifo_buf = readlog

\* C10: while the event queue holds MAX_QUEUE_SIZE codes, no byte is read
\* and no code is pushed.
C10_Backpressure ==
  [][ Len(fkey_queue) = MAX_QUEUE_SIZE =>
        (readlog' = readlog /\ pushed' = pushed) ]_vars

\* C11: the event queue never holds more than MAX_QUEUE_SIZE codes, whatever
\* the order of the calls and wherever the keypress timeout elapses.
C11_QueueBounded == Len(fkey_queue) <= MAX_QUEUE_SIZE

\* C12: the ring buffer never holds more than FIFO_BUF_SIZE bytes, and a byte
\* read while it holds FIFO_BUF_SIZE bytes is dropped: the read completes, the
\* decode loop runs next, and the buffered bytes keep their values and order.
C12_RingBufferBounded ==
  /\ [](Len(fifo_buf) <= FIFO_BUF_SIZE)
  /\ [][ (readlog' # readlog /\ Len(fifo_buf) = FIFO_BUF_SIZE) =>
           (fifo_buf' = fifo_buf /\ pc' = "parse") ]_vars

C12_Witness ==
  /\ Len(fifo_buf) = FIFO_BUF_SIZE
  /\ Len(readlog) = FIFO_BUF_SIZE + 2
  /\ fifo_buf = SubSeq(readlog, 1, FIFO_BUF_SIZE)
  /\ pc = "idle"

\* what isKeyPressed(blocking_time) does when called in the current state
PollNow(blocking_time) ==
  isKeyPressed_call(has_pending_input, input # <<>>, blocking_time,
                    non_blocking_input_support, timed_out)

\* C13: when an earlier isKeyPressed call has flagged pending input and no
\* byte has been read since (has_pending_input is still true), a call of
\* isKeyPressed returns true, and does so without a select() on the descriptor.
C13_PendingReturnsTrue ==
  (pc = "idle" /\ has_pending_input) =>
    \A blocking_time \in BlockingTimes :
      PollNow(blocking_time).ret /\ PollNow(blocking_time).selects = 0

\* C14: a call of isKeyPressed that finds input (the only call that changes
\* anything: it sets has_pending_input) leaves the unread input, the bytes the
\* terminal still sends, the ring buffer, the event queue, fkey and key as they
\* were, for every blocking time; and has_pending_input is set by nothing else
\* than such a call, made while the engine is idle and a byte is waiting.
C14_NonDestructive ==
  [][ (~has_pending_input /\ has_pending_input') =>
        /\ UNCHANGED << stream, input, fifo_buf, fkey_queue, fkey, key >>
        /\ UNCHANGED << events, pushed, readlog, pc >>
        /\ pc = "idle" /\ input # <<>> ]_vars

C14_Witness ==
  /\ has_pending_input
  /\ input # <<>>
  /\ fifo_buf # <<>>
  /\ fkey_queue # <<>>

\* the mouse code of a byte sequence that has one of the three report shapes
\* (six bytes or more), NOT_SET for any other sequence
MouseShape(s) ==
  IF Len(s) >= 6 /\ s[2] = 91 /\ s[3] = 77 THEN X11mouse
  ELSE IF Len(s) >= 9 /\ s[2] = 91 /\ s[3] = 60
          /\ (s[Len(s)] = 77 \/ s[Len(s)] = 109) THEN Extended_mouse
  ELSE IF Len(s) >= 9 /\ s[2] = 91 /\ s[3] >= 49 /\ s[3] <= 57
          /\ s[4] >= 48 /\ s[4] <= 57 /\ s[Len(s)] = 77 THEN Urxvt_mouse
  ELSE NOT_SET

\* the indices of the entries of a table whose bytes are exactly s
EntriesEqual(table, s) ==
  {i \in 1..Len(table) : table[i].string # <<>> /\ table[i].string = s}

First(S) == CHOOSE i \in S : \A j \in S : i <= j

\* C15: on a buffer that begins with ESC the mouse shapes are tried first,
\* then the capability table, then the known-sequence table: when the buffer
\* has a mouse shape (mouse tracking enabled) and equals a capability or a
\* known entry, the decode attempt yields the mouse code (key set to it, the
\* mouse notification fired, nothing pushed, the bytes left in place); when it
\* has no mouse shape and equals both a capability entry and a known entry,
\* the code of the capability entry is pushed.
C15_Precedence ==
  [][ (DecodeStep /\ fifo_buf[1] = ESC) =>
        LET caps == EntriesEqual(key_cap, fifo_buf)
            known == EntriesEqual(fkey_table, fifo_buf)
            mouse == IF mouse_support THEN MouseShape(fifo_buf) ELSE NOT_SET
        IN  /\ (mouse # NOT_SET /\ (caps # {} \/ known # {})) =>
                 /\ key' = mouse
                 /\ events' = Append(events, notify("mouse", mouse, quit))
                 /\ pushed' = pushed
                 /\ fifo_buf' = fifo_buf
            /\ (mouse = NOT_SET /\ caps # {} /\ known # {}) =>
                 /\ pushed' = Append(pushed, key_cap[First(caps)].num)
                 /\ fkey' = key_cap[First(caps)].num
                 /\ fifo_buf' = <<>> ]_vars

C15_Witness ==
  /\ readlog = <<27, 91, 65>>
  /\ EntriesEqual(key_cap, readlog) # {}
  /\ EntriesEqual(fkey_table, readlog) # {}
  /\ pushed = <<Down>>
  /\ fifo_buf = <<>>

C15_WitnessMouse ==
  /\ mouse_support
  /\ EntriesEqual(key_cap, fifo_buf) \cup EntriesEqual(fkey_table, fifo_buf) # {}
  /\ MouseShape(fifo_buf) = X11mouse
  /\ key = X11mouse
  /\ events # <<>> /\ events[Len(events)].kind = "mouse"

\* C16: FKey::Incomplete is never reported: the event queue never holds it,
\* it has never been pushed, and no press, release, escape or mouse
\* notification has fired with key equal to it.
C16_IncompleteNotReported ==
  /\ \A i \in 1..Len(fkey_queue) : fkey_queue[i] # Incomplete
  /\ \A i \in 1..Len(pushed) : pushed[i] # Incomplete
  /\ \A i \in 1..Len(events) : events[i].key # Incomplete
  /\ key # Incomplete

C16_Witness ==
  /\ fkey = Incomplete
  /\ fifo_buf = <<ESC>>
  /\ fkey_queue = <<97>>
  /\ pushed = <<97>>

\* a step in which buffered bytes leave the ring buffer
BytesLeave == Len(fifo_buf') < Len(fifo_buf)

\* a step that produces a key from the buffer: a code is pushed, or the escape
\* or the mouse notification fires
KeyProduced ==
  \/ pushed' # pushed
  \/ CountOf(events', "escape") > CountOf(events, "escape")
  \/ CountOf(events', "mouse") > CountOf(events, "mouse")

\* C17 as stated: under fair repetition of the operations every buffered byte
\* eventually leaves the ring buffer, and bytes leave it only in a step that
\* pushes a key code or fires the escape or the mouse notification: no byte
\* is discarded without producing a key.
C17_EveryByteDecodes ==
  /\ (hasData(fifo_buf) ~> ~hasData(fifo_buf))
  /\ [][ BytesLeave => KeyProduced ]_vars

\* C17 as amended: under fair repetition of the operations every buffered
\* byte eventually leaves the ring buffer (the buffer is empty again after
\* any moment at which it holds bytes), and bytes leave it only in a step that
\* pushes a key code or fires the escape notification, or when
\* clearKeyBufferOnTimeout, called after the keypress timeout has elapsed,
\* empties the buffer without producing a key.
C17_EveryByteLeaves ==
  /\ (hasData(fifo_buf) ~> ~hasData(fifo_buf))
  /\ [][ BytesLeave =>
           \/ KeyProduced
           \/ /\ pc = "idle" /\ timed_out /\ fifo_buf' = <<>>
              /\ UNCHANGED << pushed, events, fkey_queue >> ]_vars

C17_Witness ==
  /\ readlog = <<27, 120>>
  /\ fifo_buf = <<>>
  /\ pushed = <<>>
  /\ events = <<>>
  /\ timed_out

\* C18: a physical read (readKey) takes at most one byte from stdin, is made
\* with the descriptor in non-blocking mode, and leaves non_blocking_stdin as
\* it was before the call, whether that was blocking or non-blocking.
C18_ReadKeyRestoresMode ==
  [][ parseKeyBuffer_read =>
        /\ Len(input) - Len(input') <= 1
        /\ readKey(input, non_blocking_stdin).during
        /\ non_blocking_stdin' = non_blocking_stdin ]_vars

\* C19: getKeyName(k) returns the name of the first entry of the name table
\* whose code is k and is not None; when there is none it returns the
\* one-character string of k if 33 <= k <= 126, and the empty string
\* otherwise (for None, 32 and 127 among others).
C19_GetKeyName ==
  key_name.asked =>
    LET k == key_name.num
        hits == {i \in 1..Len(fkeyname) :
                   fkeyname[i].num = k /\ fkeyname[i].num # None}
    IN  IF hits # {} THEN key_name.string = fkeyname[First(hits)].string
        ELSE IF 33 <= k /\ k <= 126 THEN key_name.string = << k >>
        ELSE key_name.string = <<>>

C19_Witness ==
  /\ key_name.asked
  /\ key_name.num = 126
  /\ key_name.string = << 126 >>

C19_WitnessTable ==
  /\ key_name.asked
  /\ key_name.num = Up
  /\ key_name.string = << 85, 112 >>

C19_WitnessEmpty ==
  /\ key_name.asked
  /\ key_name.num \in {None, 32, 127, NOT_SET}
  /\ key_name.string = <<>>

\* the indices of the known entries whose bytes are exactly s
KnownEqual(s) == {i \in 1..Len(fkey_table) : fkey_table[i].string = s}

\* what a lookup returns on a match with entry e, and when nothing matches
Matched(r, e) == r.key = e.num /\ r.buf = <<>>

Unmatched(r, s) == r.key = NOT_SET /\ r.buf = s

\* C20 as stated: on the buffered bytes, whatever the timer answers,
\* getTermcapKey and getKnownKey return the code of an entry only when the
\* entry's bytes are exactly the buffered bytes, and then the buffer becomes
\* empty; when no entry is equal to the buffered bytes they return NOT_SET
\* and leave the buffer unchanged; an absent capability table and a
\* zero-length capability entry never match.
C20_ExactLengthLookup ==
  \A tmo \in BOOLEAN :
    LET caps == EntriesEqual(key_cap, fifo_buf)
        known == KnownEqual(fifo_buf)
        t == getTermcapKey(fifo_buf)
        k == getKnownKey(fifo_buf, tmo)
    IN  /\ IF caps # {} THEN Matched(t, key_cap[First(caps)])
                        ELSE Unmatched(t, fifo_buf)
        /\ IF known # {} THEN Matched(k, fkey_table[First(known)])
                         ELSE Unmatched(k, fifo_buf)

\* C20 as amended: the same, except that getKnownKey, when the entry that
\* matches has two bytes, the second of them 'O', '[' or ']', and the keypress
\* timeout has not elapsed, returns Incomplete and removes nothing.
C20_ExactLengthLookupHeld ==
  \A tmo \in BOOLEAN :
    LET caps == EntriesEqual(key_cap, fifo_buf)
        known == KnownEqual(fifo_buf)
        t == getTermcapKey(fifo_buf)
        k == getKnownKey(fifo_buf, tmo)
        held == /\ Len(fifo_buf) = 2 /\ fifo_buf[2] \in {79, 91, 93} /\ ~tmo
    IN  /\ IF caps # {} THEN Matched(t, key_cap[First(caps)])
                        ELSE Unmatched(t, fifo_buf)
        /\ IF known # {}
             THEN IF held THEN k.key = Incomplete /\ k.buf = fifo_buf
                          ELSE Matched(k, fkey_table[First(known)])
             ELSE Unmatched(k, fifo_buf)

C20_Witness ==
  /\ key_cap = fkey_cap_table
  /\ readlog = <<27, 79, 65>>
  /\ EntriesEqual(key_cap, readlog) # {}
  /\ pushed = <<Up>>
  /\ fifo_buf = <<>>

C20_WitnessKnown ==
  /\ key_cap = <<>>
  /\ readlog = <<27, 91, 65>>
  /\ KnownEqual(readlog) # {}
  /\ pushed = <<Up>>
  /\ fifo_buf = <<>>


\* ESC followed by 'O', '[' or ']' and nothing more
IsSubstringKey(s) == Len(s) = 2 /\ s[1] = ESC /\ s[2] \in {79, 91, 93}

\* C21: while exactly ESC and one of 'O', '[' and ']' are buffered and the
\* keypress timeout has not elapsed, no step other than the read of a further
\* byte produces a key code for them or removes them: nothing is pushed, no
\* escape or mouse notification fires and both bytes stay buffered, whatever the capability
\* and the known tables contain.
C21_SubstringOnlyAfterTimeout ==
  [][ (IsSubstringKey(fifo_buf) /\ ~timed_out /\ readlog' = readlog) =>
        /\ pushed' = pushed
        /\ CountOf(events', "escape") = CountOf(events, "escape")
        /\ CountOf(events', "mouse") = CountOf(events, "mouse")
        /\ fifo_buf' = fifo_buf ]_vars

\* a buffer that begins with ESC and that no stage of parseKeyString
\* recognises: no mouse shape, no capability entry, no known entry
UnmatchedEscape(s) ==
  /\ hasData(s) /\ s[1] = ESC
  /\ (mouse_support => MouseShape(s) = NOT_SET)
  /\ EntriesEqual(key_cap, s) = {}
  /\ KnownEqual(s) = {}

\* C22: on a buffer that begins with ESC and matches no mouse shape and no
\* capability or known entry, parseKeyString returns Incomplete and leaves
\* the buffer unchanged if the keypress timeout has not elapsed, and returns
\* key code 27 and removes exactly the leading ESC byte if it has elapsed;
\* the decode attempt of parseKeyBuffer accordingly pushes nothing, or 27.
C22_UnmatchedEscape ==
  /\ [](UnmatchedEscape(fifo_buf) =>
          \A stale \in StaleSeqs :
            /\ parseKeyString(fifo_buf, FALSE, stale) =
                 [key |-> Incomplete, buf |-> fifo_buf]
            /\ parseKeyString(fifo_buf, TRUE, stale) =
                 [key |-> ESC, buf |-> Tail(fifo_buf)])
  /\ [][ (DecodeStep /\ UnmatchedEscape(fifo_buf)) =>
           IF timed_out
             THEN /\ fkey' = ESC /\ pushed' = Append(pushed, ESC)
                  /\ fifo_buf' = Tail(fifo_buf)
             ELSE /\ fkey' = Incomplete /\ pushed' = pushed
                  /\ fifo_buf' = fifo_buf ]_vars

\* ESC 'x' was held back, then decoded byte by byte after the timeout
C22_Witness ==
  /\ readlog = <<97, 27, 120, 121>>
  /\ pushed = <<97, ESC>>
  /\ fifo_buf = <<120, 121>>

C22_WitnessIncomplete ==
  /\ fifo_buf = <<ESC, 120>>
  /\ fkey = Incomplete
  /\ pushed = <<97>>
  /\ ~timed_out

IsDigit(b) == b >= 48 /\ b <= 57

\* the classification as stated: the 6-byte form ESC '[' 'M'; ESC '[' '<', 9
\* bytes or more, last byte 'M' or 'm'; ESC '[' and digits, 9 bytes or more,
\* last byte 'M'
StatedShape(s) ==
  IF Len(s) = 6 /\ s[2] = 91 /\ s[3] = 77 THEN X11mouse
  ELSE IF Len(s) >= 9 /\ s[2] = 91 /\ s[3] = 60
          /\ (s[Len(s)] = 77 \/ s[Len(s)] = 109) THEN Extended_mouse
  ELSE IF Len(s) >= 9 /\ s[2] = 91 /\ IsDigit(s[3]) /\ IsDigit(s[4])
          /\ s[Len(s)] = 77 THEN Urxvt_mouse
  ELSE NOT_SET

\* C23 as stated: with mouse tracking enabled, getMouseProtocolKey gives a
\* buffer that begins with ESC the legacy code exactly for the 6-byte form
\* ESC '[' 'M', the SGR code exactly for ESC '[' '<' of 9 bytes or more that
\* ends in 'M' or 'm', the extended code exactly for ESC '[' and digits of 9
\* bytes or more that ends in 'M', and no mouse code otherwise.
C23_MouseShapes ==
  (mouse_support /\ hasData(fifo_buf) /\ fifo_buf[1] = ESC) =>
    \A stale \in StaleSeqs :
      getMouseProtocolKey(fifo_buf, stale) = StatedShape(fifo_buf)

\* C23 as amended: the legacy code for every buffer of 6 bytes or more whose
\* second and third bytes are '[' and 'M'; the SGR code for '[' '<', 9 bytes
\* or more, last byte 'M' or 'm'; the extended code for '[', a digit '1'..'9',
\* a digit '0'..'9', 9 bytes or more, last byte 'M'; no mouse code for any
\* other buffer, whatever the unused ring storage holds; the three codes are
\* distinct, and a decode attempt fires the mouse notification with that code
\* exactly when there is one.
C23_MouseShapesAsCoded ==
  /\ [](Cardinality(MouseKeys) = 3 /\ NOT_SET \notin MouseKeys)
  /\ []((mouse_support /\ hasData(fifo_buf) /\ fifo_buf[1] = ESC) =>
          \A stale \in StaleSeqs :
            getMouseProtocolKey(fifo_buf, stale) = MouseShape(fifo_buf))
  /\ [][ (DecodeStep /\ mouse_support /\ fifo_buf[1] = ESC) =>
           IF MouseShape(fifo_buf) # NOT_SET
             THEN /\ key' = MouseShape(fifo_buf)
                  /\ events' = Append(events, notify("mouse", key', quit))
             ELSE events' = events /\ key' = key ]_vars

\* an SGR release report and an extended report were classified
C23_Witness ==
  /\ mouse_support
  /\ readlog = <<27, 91, 60, 48, 59, 49, 59, 49, 109>>
  /\ fifo_buf = readlog
  /\ key = Extended_mouse
  /\ events = << notify("mouse", Extended_mouse, FALSE) >>

C23_WitnessUrxvt ==
  /\ mouse_support
  /\ readlog = <<27, 91, 51, 50, 59, 49, 59, 49, 77>>
  /\ key = Urxvt_mouse
  /\ Len(events) = 1 /\ events[1].kind = "mouse"

\* nine bytes, ESC '[' and digits, last byte 'M', and no mouse code
C23_WitnessNoCode ==
  /\ mouse_support
  /\ fifo_buf = <<27, 91, 48, 53, 59, 49, 59, 49, 77>>
  /\ fkey = Incomplete
  /\ events = <<>>

\* C24: every release notification sees in key the code the press
\* notification before it saw, also when the press handler has called
\* processQueuedInput in between.
C24_ReleaseSeesPressKey ==
  [][ processQueuedInput_release =>
        \A i \in 1..Len(events') :
          (i > Len(events) /\ events'[i].kind = "release") =>
            LET presses == {j \in 1..Len(events) : events[j].kind = "press"}
                last == CHOOSE j \in presses : \A h \in presses : h <= j
            IN  events'[i].key = events[last].key ]_vars

\* the return of processQueuedInput: on an empty queue, or on quit
DrainReturn == processQueuedInput_loop /\ pc' = "idle"

\* codes leave the event queue only from its front, one per iteration of the
\* loop of processQueuedInput, and a code above None with its press
\* notification; a return on quit leaves every code behind the one being
\* delivered in place
NothingLost ==
  [][ fkey_queue' # fkey_queue /\ Len(fkey_queue') <= Len(fkey_queue) =>
        /\ pc = "drain"
        /\ fkey_queue' = Tail(fkey_queue)
        /\ KeyGreater(Head(fkey_queue), None) =>
             /\ Len(events') > Len(events)
             /\ events'[Len(events) + 1] =
                  notify("press", Head(fkey_queue), events'[Len(events) + 1].quit)
      ]_vars

\* C25 as stated: a processQueuedInput call terminates; when quit has not
\* become true it returns with the event queue empty and key equal to None;
\* when it returns on quit the codes behind the one being delivered stay
\* queued in their order, and codes leave the queue only by being delivered,
\* so that a later call delivers them.
C25_DrainToQuit ==
  /\ (pc = "drain" ~> pc = "idle")
  /\ [][ (DrainReturn /\ ~quit') =>
           (fkey_queue' = <<>> /\ key' = None) ]_vars
  /\ [][ (DrainReturn /\ quit' /\ fkey_queue # <<>>) =>
           fkey_queue' = Tail(fkey_queue) ]_vars
  /\ NothingLost

\* C25 as amended: a processQueuedInput call terminates; when quit has not
\* become true it returns with the event queue empty, every iteration it has
\* run has left key equal to None, and a call that found the queue empty
\* leaves key as it was (None, or the mouse code parseKeyBuffer stored); when
\* it returns on quit the codes behind the one being delivered stay queued in
\* their order, and codes leave the queue only by being delivered.
C25_DrainToQuitKeyKept ==
  /\ (pc = "drain" ~> pc = "idle")
  /\ [][ (DrainReturn /\ ~quit') =>
           /\ fkey_queue' = <<>>
           /\ key' = key
           /\ key \in {None} \cup MouseKeys
           /\ ~mouse_support => key = None ]_vars
  /\ [][ (DrainStep /\ ~quit') => key' = None ]_vars
  /\ [][ (DrainReturn /\ quit' /\ fkey_queue # <<>>) =>
           fkey_queue' = Tail(fkey_queue) ]_vars
  /\ NothingLost

\* quit was observed at the press of 'a', and 'b' is still queued
C25_Witness ==
  /\ pc = "idle" /\ quit
  /\ pushed = <<97, 98>>
  /\ fkey_queue = <<98>>
  /\ events = << notify("press", 97, TRUE) >>
  /\ key = 97

\* two codes were delivered without quit
C25_WitnessDrained ==
  /\ pc = "idle" /\ ~quit
  /\ pushed = <<97, 98>>
  /\ fkey_queue = <<>>
  /\ Len(events) = 4
  /\ key = None

\* the table in another order: entry p[i] at position i
Permuted(table, p) == [i \in 1..Len(table) |-> table[p[i]]]

TableOrders == Permutations(1..Len(fkey_table))

SortedByLength(table) ==
  \A i, j \in 1..Len(table) :
    i < j => Len(table[i].string) <= Len(table[j].string)

UniqueStrings(table) ==
  \A i, j \in 1..Len(table) : table[i].string = table[j].string => i = j

\* C26: no two entries of the known-sequence table have the same bytes, and
\* on the buffered bytes, whatever the timer answers, getKnownKey returns the
\* same key code and leaves the same bytes for every order of the table: the
\* order the constructor's sort by ascending length gives and any other.
C26_OrderIndependent ==
  /\ UniqueStrings(fkey_table)
  /\ SortedByLength(fkey_table)
  /\ hasData(fifo_buf) =>
       \A tmo \in BOOLEAN : \A p \in TableOrders :
         getKnownKey_in(Permuted(fkey_table, p), fifo_buf, tmo) =
           getKnownKey(fifo_buf, tmo)

\* a known sequence held in other positions by other orders was looked up
C26_Witness ==
  /\ readlog = <<27, 91, 65>>
  /\ pushed = <<Up>>
  /\ fifo_buf = <<>>
  /\ \E p \in TableOrders :
       /\ ~SortedByLength(Permuted(fkey_table, p))
       /\ Permuted(fkey_table, p)[1].string = readlog

\* ESC '[' held back while another order has ESC '[' 'A' in front of it
C26_WitnessHeld ==
  /\ fifo_buf = <<27, 91>>
  /\ fkey = Incomplete
  /\ \E p \in TableOrders : Permuted(fkey_table, p)[1].string = <<27, 91, 65>>

\* C27: with one byte buffered that getSingleKey takes as a single byte
\* (UTF-8 input disabled, or a byte below 0xC0), getSingleKey removes exactly
\* that byte and returns Ctrl_space for the byte 0, Backspace for the byte
\* 127 and the byte value for every other byte, whatever the timer answers;
\* and a decode attempt on such a byte other than ESC pushes that code.
C27_SingleByte ==
  /\ []((Len(fifo_buf) = 1 /\ (~utf8_input \/ fifo_buf[1] < 192)) =>
          \A tmo \in BOOLEAN : \A stale \in StaleSeqs :
            LET b == fifo_buf[1]
                r == getSingleKey(fifo_buf, tmo, stale)
            IN  /\ r.buf = <<>>
                /\ r.key = IF b = 0 THEN Ctrl_space
                           ELSE IF b = 127 THEN Backspace
                           ELSE b)
  /\ [][ (/\ DecodeStep /\ Len(fifo_buf) = 1 /\ fifo_buf[1] # ESC
          /\ (~utf8_input \/ fifo_buf[1] < 192)) =>
           LET b == fifo_buf[1]
               k == IF b = 0 THEN Ctrl_space
                    ELSE IF b = 127 THEN Backspace
                    ELSE b
           IN  /\ pushed' = Append(pushed, k)
               /\ fkey' = k
               /\ fifo_buf' = <<>> ]_vars

C27_Witness ==
  /\ readlog = <<127>>
  /\ pushed = <<Backspace>>
  /\ fifo_buf = <<>>

C27_WitnessNul ==
  /\ readlog = <<0>>
  /\ pushed = <<Ctrl_space>>
  /\ fifo_buf = <<>>

C27_WitnessHigh ==
  /\ ~utf8_input
  /\ readlog = <<255>>
  /\ pushed = <<255>>
  /\ fifo_buf = <<>>

\* C28: when has_pending_input is not set and stdin is not readable when
\* isKeyPressed begins, the call waits at most blocking_time if the keypress
\* timeout has elapsed and at most read_blocking_time_short otherwise, and
\* it returns true, with has_pending_input set, exactly when stdin becomes
\* readable before the wait has run out.
C28_PollWait ==
  [][ (/\ isKeyPressed \/ isKeyPressed_during
       /\ ~has_pending_input /\ input = <<>>) =>
        /\ \A blocking_time \in BlockingTimes :
             isKeyPressed_wait(FALSE, FALSE, input' # <<>>, blocking_time,
                               non_blocking_input_support, timed_out).tv_usec
               <= IF timed_out THEN blocking_time
                  ELSE read_blocking_time_short
        /\ has_pending_input' = (input' # <<>>) ]_vars

\* C29: in a decode attempt every position parseKeyString and the functions
\* it calls ask of the ring buffer is below the number of buffered bytes,
\* and pop() is asked for no more bytes than are buffered, whatever the
\* storage behind the buffered bytes holds; this includes a UTF-8 sequence
\* shorter than its lead byte announces that is decoded after the timeout.
C29_PeeksInRange ==
  (pc = "parse" /\ hasData(fifo_buf) /\ fkey # Incomplete) =>
    \A stale \in StaleSeqs :
      /\ \A i \in parseKeyString_peeks(fifo_buf, timed_out, stale) :
           i < Len(fifo_buf)
      /\ parseKeyString_popped(fifo_buf, timed_out, stale) <= Len(fifo_buf)
\* the mouse code the decode attempt on buffer s yields, NOT_SET when it
\* yields none
MouseYield(s) ==
  IF mouse_support /\ s[1] = ESC THEN MouseShape(s) ELSE NOT_SET

\* C31: mouse key codes bypass the event queue.  Whenever an iteration of the
\* decode loop yields X11mouse, Extended_mouse or Urxvt_mouse, key becomes
\* that code, the mouse-tracking notification fires exactly once, nothing is
\* pushed onto the event queue, the inner loop ends (no further decode attempt
\* for the byte just read) and no byte leaves the ring buffer; an iteration
\* that yields no mouse code fires no notification and leaves key alone.
C31_MouseBypassesQueue ==
  [][ DecodeStep =>
        LET m == MouseYield(fifo_buf)
        IN  IF m # NOT_SET
              THEN /\ key' = m
                   /\ events' = Append(events, notify("mouse", m, quit))
                   /\ pushed' = pushed
                   /\ fkey_queue' = fkey_queue
                   /\ fifo_buf' = fifo_buf
                   /\ fkey' = None
                   /\ pc' # "parse"
              ELSE /\ events' = events
                   /\ key' = key ]_vars

\* an SGR report has been read: one notification, the nine bytes still
\* buffered, nothing queued
C31_Witness ==
  /\ mouse_support
  /\ Len(readlog) = 9
  /\ events = << notify("mouse", Extended_mouse, FALSE) >>
  /\ key = Extended_mouse
  /\ fifo_buf = readlog
  /\ fkey_queue = <<>>
  /\ pushed = <<>>
  /\ pc # "parse"

\* a urxvt report has been read
C31_WitnessUrxvt ==
  /\ mouse_support
  /\ events = << notify("mouse", Urxvt_mouse, FALSE) >>
  /\ key = Urxvt_mouse
  /\ fifo_buf = readlog

\* a byte read after a legacy report: the report is still in the buffer and
\* is recognised again
C31_WitnessAgain ==
  /\ mouse_support
  /\ Len(fifo_buf) = 7
  /\ events = << notify("mouse", X11mouse, FALSE),
                 notify("mouse", X11mouse, FALSE) >>
  /\ pushed = <<>>

\* C32: the decode loop always makes progress.  Each iteration of the inner
\* loop of parseKeyBuffer removes at least one byte from the ring buffer or
\* ends the inner loop (Incomplete or a mouse code); a byte is read only
\* while the event queue holds fewer than MAX_QUEUE_SIZE codes; and a
\* fetchKeyCode call that has begun returns.
C32_DecodeProgress ==
  /\ [][ DecodeStep =>
           \/ Len(fifo_buf') < Len(fifo_buf)
           \/ fkey' = Incomplete
           \/ key' \in MouseKeys /\ pc' # "parse" ]_vars
  /\ [][ readlog' # readlog => Len(fkey_queue) < MAX_QUEUE_SIZE ]_vars
  /\ [](pc \in {"read", "parse"} => <>(pc = "idle"))

\* a call has returned because the queue is full, with bytes still waiting
C32_Witness ==
  /\ pc = "idle"
  /\ Len(fkey_queue) = MAX_QUEUE_SIZE
  /\ Len(readlog) = MAX_QUEUE_SIZE
  /\ input # <<>>
  /\ events = <<>>

\* a short multi-byte sequence was decoded after the timeout: the decode
\* attempt asked for more bytes than were buffered and emptied the buffer
C32_WitnessShort ==
  /\ utf8_input
  /\ readlog = <<240, 159, 152>>
  /\ Len(pushed) = 1
  /\ fifo_buf = <<>>
  /\ pc = "idle"

\* a call has returned with a mouse report left in the buffer
C32_WitnessMouse ==
  /\ pc = "idle"
  /\ key = X11mouse
  /\ Len(fifo_buf) = 7

\* the Meta code of ESC followed by 'O', '[' or ']'
MetaOf(s) ==
  IF s[2] = 79 THEN Meta_O
  ELSE IF s[2] = 91 THEN Meta_left_square_bracket
  ELSE Meta_right_square_bracket

\* C33: timeout handling is order-sensitive.  With the keypress timeout
\* elapsed, escapeKeyHandling on a lone ESC fires exactly one escape
\* notification and pushes nothing, and on ESC followed by 'O', '[' or ']'
\* pushes exactly the one Meta code and fires nothing; either way it leaves
\* the buffer empty, so the clearKeyBufferOnTimeout that follows changes
\* nothing.  clearKeyBufferOnTimeout only empties the buffer and resets fkey
\* and key to None, pushes and fires nothing, and changes nothing unless the
\* buffer has data and the timeout has elapsed; the escapeKeyHandling that
\* follows it finds an empty buffer and emits nothing.
C33_TimeoutOrder ==
  /\ [][ (escapeKeyHandling /\ timed_out /\ fifo_buf = <<ESC>>) =>
           /\ events' = Append(events, notify("escape", key, quit))
           /\ pushed' = pushed /\ fkey_queue' = fkey_queue
           /\ fifo_buf' = <<>> ]_vars
  /\ [][ (escapeKeyHandling /\ timed_out /\ IsSubstringKey(fifo_buf)) =>
           /\ pushed' = Append(pushed, MetaOf(fifo_buf))
           /\ fkey_queue' = Append(fkey_queue, MetaOf(fifo_buf))
           /\ events' = events
           /\ fifo_buf' = <<>> ]_vars
  /\ [][ (escapeKeyHandling /\ fifo_buf = <<>>) =>
           (events' = events /\ pushed' = pushed
              /\ fkey_queue' = fkey_queue) ]_vars
  /\ [][ clearKeyBufferOnTimeout =>
           /\ events' = events /\ pushed' = pushed
           /\ fkey_queue' = fkey_queue
           /\ IF hasData(fifo_buf) /\ timed_out
                THEN fifo_buf' = <<>> /\ fkey' = None /\ key' = None
                ELSE UNCHANGED vars ]_vars

\* clearKeyBufferOnTimeout came first: the lone ESC that was read has left
\* the buffer and nothing was emitted
C33_Witness ==
  /\ readlog = <<ESC>> /\ stream = <<>> /\ input = <<>>
  /\ pc = "idle" /\ timed_out
  /\ fifo_buf = <<>>
  /\ events = <<>> /\ pushed = <<>>

\* escapeKeyHandling came first on a lone ESC
C33_WitnessEscape ==
  /\ readlog = <<ESC>> /\ stream = <<>> /\ input = <<>>
  /\ pc = "idle" /\ timed_out
  /\ fifo_buf = <<>>
  /\ CountOf(events, "escape") = 1 /\ Len(events) = 1 /\ pushed = <<>>

\* escapeKeyHandling came first on ESC followed by 'O', '[' or ']'
C33_WitnessMeta ==
  /\ IsSubstringKey(readlog)
  /\ pc = "idle" /\ timed_out
  /\ fifo_buf = <<>>
  /\ events = <<>> /\ pushed = << MetaOf(readlog) >>

\* clearKeyBufferOnTimeout came first on ESC followed by 'O', '[' or ']'
C33_WitnessMetaCleared ==
  /\ IsSubstringKey(readlog) /\ stream = <<>> /\ input = <<>>
  /\ pc = "idle" /\ timed_out
  /\ fifo_buf = <<>>
  /\ events = <<>> /\ pushed = <<>>

\* C34: has_pending_input is set only by isKeyPressed and cleared only by a
\* successful read of parseKeyBuffer.  It becomes true only in a step of
\* isKeyPressed (engine idle, nothing else changes); it becomes false only
\* in a step that reads a byte, and every step that reads a byte leaves it
\* false; no step inside a fetchKeyCode call sets it, so a call that read a
\* byte returns with it false; a fetchKeyCode skipped because the queue is
\* full and a read that finds no byte leave it as it was; and for every
\* blocking time and every readiness of stdin, isKeyPressed returns true only
\* with has_pending_input true on return.
C34_PendingFlag ==
  /\ [][ (~has_pending_input /\ has_pending_input') =>
           /\ pc = "idle" /\ pc' = "idle"
           /\ UNCHANGED << fifo_buf, fkey_queue, fkey, key, readlog, pushed,
                           events >> ]_vars
  /\ [][ (has_pending_input /\ ~has_pending_input') =>
           readlog' # readlog ]_vars
  /\ [][ readlog' # readlog => ~has_pending_input' ]_vars
  /\ [][ (pc \in {"read", "parse"} /\ readlog' = readlog) =>
           has_pending_input' = has_pending_input ]_vars
  /\ [][ (pc = "idle" /\ pc' = "idle"
            /\ Len(fkey_queue) >= MAX_QUEUE_SIZE
            /\ UNCHANGED << input, stream >>) =>
           (~has_pending_input' => ~has_pending_input) ]_vars
  /\ [][ (pc = "idle" /\ pc' = "read") =>
           has_pending_input' = has_pending_input ]_vars
  /\ [](\A blocking_time \in BlockingTimes, ready1 \in BOOLEAN,
           ready2 \in BOOLEAN :
          LET r == isKeyPressed_wait(has_pending_input, ready1, ready2,
                                     blocking_time,
                                     non_blocking_input_support, timed_out)
          IN  r.ret => r.has_pending_input)

\* the flag is set while the queue is full: the fetchKeyCode that follows is
\* skipped and leaves it set
C34_Witness ==
  /\ pc = "idle"
  /\ has_pending_input
  /\ Len(fkey_queue) = MAX_QUEUE_SIZE
  /\ input # <<>>
  /\ readlog # <<>>

\* a call began with the flag set and has read a byte
C34_WitnessCleared ==
  /\ pc = "parse"
  /\ ~has_pending_input
  /\ Len(readlog) = 1
  /\ fifo_buf = readlog

\* a call began with the flag set and has not read yet
C34_WitnessCalled ==
  /\ pc = "read"
  /\ has_pending_input
  /\ readlog = <<>>

====
